---- MODULE Spec2Model ----
(***************************************************************************)
(* The D3D12/DXGI capture layer of gfxreconstruct: the forwarding shims of *)
(* framework/generated/generated_dx12_wrappers.cpp, the per-thread call    *)
(* scope of the capture manager, the per-interface object maps and the     *)
(* trace the encoders append to.                                           *)
(*                                                                         *)
(* Every one of the 372 entry points of the file has the same body:        *)
(*   call_scope = manager->IncrementCallScope();                           *)
(*   if (call_scope == 1) { PreCall; forward (arguments unwrapped);        *)
(*                          [if (SUCCEEDED(result)) WrapObject...;]        *)
(*                          Encode_X; PostCall }                           *)
(*   else                 { forward (arguments as supplied) }              *)
(*   manager->DecrementCallScope(); return result;                         *)
(* A thread's position in that body is the pc of the top frame of its      *)
(* stack; one action models one statement of the body.                     *)
(***************************************************************************)
EXTENDS Integers, Sequences, FiniteSets, TLC

VARIABLES
    call_scope,        \* per thread: the capture manager's call-scope counter
    stack,             \* per thread: frames of the entry points in progress
    issued,            \* per thread: outermost calls the application has made
    trace,             \* the TraceRecords written to the sink, in write order
    encoding_enabled,  \* FALSE once the sink has refused a record
    object_map_,       \* per wrapper type: real object -> its wrapper
    wrappers,          \* every wrapper constructed so far, in order, and whether it is alive
    next_capture_id,   \* the next CaptureId to hand out
    calls,             \* entry-point calls made so far (bounds the run)
    dispatch_table,    \* per free function: the real entry point resolved for it
    unwrap_memory,     \* per thread: the copies in its HandleUnwrapMemory
    object_map_lock_,  \* per wrapper type: the thread holding the map's mutex
    sink_lock,         \* the thread holding the mutex of the trace sink
    destroying,        \* per thread: the wrapper whose destructor it is running
    resolving,         \* per thread: how far its outermost call has resolved its arguments
    env,               \* the environment variables of the process
    disk,              \* the file system: regular files, directories, the settings text
    settings,          \* the caller's settings map, or a null pointer to it
    running            \* the settings-loader function being executed: its arguments and locals

\* What the steps of finer grain speak of: who holds which mutex, and which
\* destructors are under way.
locking == <<object_map_lock_, sink_lock, destroying>>

\* What the settings loader reads and writes.
loader == <<env, disk, settings, running>>

vars == <<call_scope, stack, issued, trace, encoding_enabled, object_map_, next_capture_id,
          wrappers, calls, dispatch_table, unwrap_memory, locking, resolving, loader>>

\* Bounds of the model.
MaxCalls == 2          \* entry-point calls made in a run, nested ones included
MaxNestingCalls == 3   \* the same, in the runs over the nesting entry points
MaxWrappingCalls == 2  \* the same, in the runs over the wrapping entry points
MaxLifetimeCalls == 2  \* the same, in the runs that create and destroy wrappers
MaxHookCalls == 3      \* the same, in the runs with calls made from the hooks
MaxScratchCalls == 3   \* the same, in the runs over the entry points that use scratch memory
MaxLockCalls == 2      \* the same, in the runs in the finer steps

Threads == {"t1", "t2"}

\* The holder of a mutex no thread holds.
NoThread == "none"

(***************************************************************************)
(* Values: object references, argument memory, results.                    *)
(***************************************************************************)
NULL == [k |-> "null"]

\* A pointer to a real (driver) object.
Real(o) == [k |-> "real", o |-> o]

\* A pointer to a wrapper: the real object it forwards to, the wrapper type
\* that registered it and its CaptureId.
Wrapper(o, t, id, n) == [k |-> "wrap", o |-> o, t |-> t, id |-> id, n |-> n]

\* The caller's array memory behind a T* const* argument.
Arr(elems) == [k |-> "arr", elems |-> elems]

\* What an entry point returns: an HRESULT (S_OK or a failure code), a
\* value (a descriptor) or nothing.
HResult(v) == [k |-> "hr", v |-> v]

HResults == {HResult(0), HResult(0 - 1)}

Void == [k |-> "void"]

Value(v) == [k |-> "val", v |-> v]

\* What the real implementation has returned while it has not been called.
NoResult == [k |-> "unset"]

SUCCEEDED(result) == result.v >= 0

\* Fields of the modelled structures that hold object references.
RefFields == {"pResource", "pRootSignature", "ptr"}

(***************************************************************************)
(* The entry points.  Each definition states, from the entry point's body: *)
(*   object   the wrapper type of `this` ("" for a free function),         *)
(*   ret      what it returns,                                             *)
(*   params   its parameters in order; `how` is what the outermost path    *)
(*            wraps the argument in when it forwards it ("" = as is),      *)
(*   wrap     the WrapObject calls after a successful real call, in order: *)
(*            the out parameter's index and where its IID comes from,      *)
(*   override whether the outermost path calls a capture-manager Override  *)
(*            instead of the real method.                                  *)
(* Parameters that carry nothing but plain data are left out, except where *)
(* an entry point has no others.                                           *)
(***************************************************************************)
In(n, kind, t, how) ==
    [n |-> n, kind |-> kind, t |-> t, how |-> how, null_ok |-> FALSE, on_failure |-> FALSE]

\* An out parameter: the identifier it is requested under ("riid": the riid
\* argument), whether the real implementation may leave null in it on
\* success (GetFullscreenState of a windowed swap chain, a serialization
\* without messages) and whether it may leave an object in it on failure
\* (the error blob of a failed serialization).
Out(n, iid, null_ok, on_failure) ==
    [n |-> n, kind |-> "out", t |-> iid, how |-> "", null_ok |-> null_ok, on_failure |-> on_failure]

CreateDXGIFactory ==
    [name |-> "CreateDXGIFactory", object |-> "", ret |-> "HRESULT",
     params |-> << In("riid", "riid", {"IDXGIFactory", "IID_Unsupported"}, ""),
                   Out("ppFactory", "riid", FALSE, FALSE) >>,
     wrap |-> << [out |-> 2, iid |-> "riid"] >>,
     override |-> FALSE]

IDXGIObject_SetPrivateDataInterface ==
    [name |-> "IDXGIObject_SetPrivateDataInterface", object |-> "IDXGIAdapter", ret |-> "HRESULT",
     params |-> << In("pUnknown", "obj", "ID3D12Resource", "GetWrappedObject") >>,
     wrap |-> << >>,
     override |-> FALSE]

IDXGIObject_GetParent ==
    [name |-> "IDXGIObject_GetParent", object |-> "IDXGIAdapter", ret |-> "HRESULT",
     params |-> << In("riid", "riid", {"IDXGIFactory"}, ""), Out("ppParent", "riid", FALSE, FALSE) >>,
     wrap |-> << [out |-> 2, iid |-> "riid"] >>,
     override |-> FALSE]

IDXGISwapChain_GetFullscreenState ==
    [name |-> "IDXGISwapChain_GetFullscreenState", object |-> "IDXGISwapChain", ret |-> "HRESULT",
     params |-> << Out("ppTarget", "IDXGIOutput", TRUE, FALSE) >>,
     wrap |-> << [out |-> 1, iid |-> "IDXGIOutput"] >>,
     override |-> FALSE]

IDXGIDevice_QueryResourceResidency ==
    [name |-> "IDXGIDevice_QueryResourceResidency", object |-> "IDXGIDevice", ret |-> "HRESULT",
     params |-> << In("ppResources", "array", "ID3D12Resource", "UnwrapObjects"),
                   In("NumResources", "count", "", "") >>,
     wrap |-> << >>,
     override |-> FALSE]

\* The body with the second WrapObject call forgotten.
D3D12SerializeRootSignature_FirstOnly ==
    [name |-> "D3D12SerializeRootSignature", object |-> "", ret |-> "HRESULT",
     params |-> << Out("ppBlob", "ID3D10Blob", FALSE, FALSE),
                   Out("ppErrorBlob", "ID3D10Blob", TRUE, TRUE) >>,
     wrap |-> << [out |-> 1, iid |-> "ID3D10Blob"] >>,
     override |-> FALSE]

D3D12SerializeRootSignature ==
    [name |-> "D3D12SerializeRootSignature", object |-> "", ret |-> "HRESULT",
     params |-> << Out("ppBlob", "ID3D10Blob", FALSE, FALSE),
                   Out("ppErrorBlob", "ID3D10Blob", TRUE, TRUE) >>,
     wrap |-> << [out |-> 1, iid |-> "ID3D10Blob"], [out |-> 2, iid |-> "ID3D10Blob"] >>,
     override |-> FALSE]

ID3D12DescriptorHeap_GetDesc ==
    [name |-> "ID3D12DescriptorHeap_GetDesc", object |-> "ID3D12DescriptorHeap", ret |-> "value",
     params |-> << >>,
     wrap |-> << >>,
     override |-> FALSE]

\* The body forwarding pSrc without UnwrapStructPtrObjects.
ID3D12GraphicsCommandList_CopyTextureRegion_SrcAsIs ==
    [name |-> "ID3D12GraphicsCommandList_CopyTextureRegion", object |-> "ID3D12GraphicsCommandList",
     ret |-> "void",
     params |-> << In("pDst", "struct", "ID3D12Resource", "UnwrapStructPtrObjects"),
                   In("pSrc", "struct", "ID3D12Resource", "") >>,
     wrap |-> << >>,
     override |-> FALSE]

ID3D12GraphicsCommandList_CopyTextureRegion ==
    [name |-> "ID3D12GraphicsCommandList_CopyTextureRegion", object |-> "ID3D12GraphicsCommandList",
     ret |-> "void",
     params |-> << In("pDst", "struct", "ID3D12Resource", "UnwrapStructPtrObjects"),
                   In("pSrc", "struct", "ID3D12Resource", "UnwrapStructPtrObjects") >>,
     wrap |-> << >>,
     override |-> FALSE]

\* The body forwarding pSrcResource without GetWrappedObject.
ID3D12GraphicsCommandList_CopyResource_SrcAsIs ==
    [name |-> "ID3D12GraphicsCommandList_CopyResource", object |-> "ID3D12GraphicsCommandList",
     ret |-> "void",
     params |-> << In("pDstResource", "obj", "ID3D12Resource", "GetWrappedObject"),
                   In("pSrcResource", "obj", "ID3D12Resource", "") >>,
     wrap |-> << >>,
     override |-> FALSE]

ID3D12GraphicsCommandList_CopyResource ==
    [name |-> "ID3D12GraphicsCommandList_CopyResource", object |-> "ID3D12GraphicsCommandList",
     ret |-> "void",
     params |-> << In("pDstResource", "obj", "ID3D12Resource", "GetWrappedObject"),
                   In("pSrcResource", "obj", "ID3D12Resource", "GetWrappedObject") >>,
     wrap |-> << >>,
     override |-> FALSE]

ID3D12CommandQueue_ExecuteCommandLists ==
    [name |-> "ID3D12CommandQueue_ExecuteCommandLists", object |-> "ID3D12CommandQueue",
     ret |-> "void",
     params |-> << In("NumCommandLists", "count", "", ""),
                   In("ppCommandLists", "array", "ID3D12GraphicsCommandList", "UnwrapObjects") >>,
     wrap |-> << >>,
     override |-> FALSE]

ID3D12PipelineLibrary_LoadGraphicsPipeline ==
    [name |-> "ID3D12PipelineLibrary_LoadGraphicsPipeline", object |-> "ID3D12PipelineLibrary",
     ret |-> "HRESULT",
     params |-> << In("pDesc", "struct", "ID3D12RootSignature", "UnwrapStructPtrObjects"),
                   In("riid", "riid", {"ID3D12PipelineState"}, ""),
                   Out("ppPipelineState", "riid", FALSE, FALSE) >>,
     wrap |-> << [out |-> 3, iid |-> "riid"] >>,
     override |-> TRUE]

ID3DDestructionNotifier_RegisterDestructionCallback ==
    [name |-> "ID3DDestructionNotifier_RegisterDestructionCallback",
     object |-> "ID3DDestructionNotifier", ret |-> "HRESULT",
     params |-> << In("callbackFn", "plain", "", "") >>,
     wrap |-> << >>,
     override |-> FALSE]

ID3D12GraphicsCommandList_OMSetRenderTargets ==
    [name |-> "ID3D12GraphicsCommandList_OMSetRenderTargets", object |-> "ID3D12GraphicsCommandList",
     ret |-> "void",
     params |-> << In("NumRenderTargetDescriptors", "count", "", ""),
                   In("pRenderTargetDescriptors", "structs", "ID3D12DescriptorHeap",
                      "UnwrapStructArrayObjects"),
                   In("RTsSingleHandleToDescriptorRange", "flag", "", ""),
                   In("pDepthStencilDescriptor", "struct", "ID3D12DescriptorHeap",
                      "UnwrapStructPtrObjects") >>,
     wrap |-> << >>,
     override |-> FALSE]

CreateDXGIFactory2 ==
    [name |-> "CreateDXGIFactory2", object |-> "", ret |-> "HRESULT",
     params |-> << In("riid", "riid", {"IDXGIFactory", "IDXGIFactory2", "IID_Unsupported"}, ""),
                   Out("ppFactory", "riid", FALSE, FALSE) >>,
     wrap |-> << [out |-> 2, iid |-> "riid"] >>,
     override |-> TRUE]

ID3D12DescriptorHeap_GetCPUDescriptorHandleForHeapStart ==
    [name |-> "ID3D12DescriptorHeap_GetCPUDescriptorHandleForHeapStart",
     object |-> "ID3D12DescriptorHeap", ret |-> "D3D12_CPU_DESCRIPTOR_HANDLE",
     params |-> << >>,
     wrap |-> << >>,
     override |-> TRUE]

Apis == { CreateDXGIFactory, IDXGIObject_SetPrivateDataInterface, IDXGIObject_GetParent,
          IDXGISwapChain_GetFullscreenState, IDXGIDevice_QueryResourceResidency,
          D3D12SerializeRootSignature, ID3D12DescriptorHeap_GetDesc,
          ID3D12GraphicsCommandList_CopyTextureRegion, ID3D12GraphicsCommandList_CopyResource,
          ID3D12CommandQueue_ExecuteCommandLists, ID3D12PipelineLibrary_LoadGraphicsPipeline,
          ID3DDestructionNotifier_RegisterDestructionCallback }

\* The entry points of the longer runs and those modelled for one
\* property each.
EntryPoints ==
    Apis \cup {ID3D12GraphicsCommandList_OMSetRenderTargets, CreateDXGIFactory2,
               ID3D12DescriptorHeap_GetCPUDescriptorHandleForHeapStart}

ApiOf(name) == CHOOSE a \in EntryPoints : a.name = name

\* The index of the parameter of the given kind ("riid", "count"); 0 if none.
ParamIndex(api, kind) ==
    IF \E i \in DOMAIN api.params : api.params[i].kind = kind
    THEN CHOOSE i \in DOMAIN api.params : api.params[i].kind = kind
    ELSE 0

(***************************************************************************)
(* The objects of the process.  The application has created its device     *)
(* objects before the modelled calls start: each is a real object with a   *)
(* live wrapper, registered in the map of its wrapper type.  Real objects  *)
(* are numbered from 101, CaptureIds from 1.                               *)
(***************************************************************************)
WrapperTypes ==
    { "IDXGIAdapter", "IDXGIFactory", "IDXGISwapChain", "IDXGIDevice", "IDXGIOutput",
      "ID3D12RootSignature", "ID3D12PipelineState", "ID3D12DescriptorHeap",
      "ID3D12GraphicsCommandList", "ID3D12CommandQueue", "ID3D12PipelineLibrary",
      "ID3D12Resource", "ID3D10Blob", "ID3DDestructionNotifier" }

InitialWrappers ==
    { Wrapper(101, "IDXGIAdapter", 1, 1), Wrapper(102, "IDXGIFactory", 2, 2),
      Wrapper(103, "IDXGISwapChain", 3, 3), Wrapper(104, "IDXGIDevice", 4, 4),
      Wrapper(105, "ID3D12DescriptorHeap", 5, 5), Wrapper(106, "ID3D12GraphicsCommandList", 6, 6),
      Wrapper(107, "ID3D12CommandQueue", 7, 7), Wrapper(108, "ID3D12PipelineLibrary", 8, 8),
      Wrapper(109, "ID3DDestructionNotifier", 9, 9), Wrapper(110, "ID3D12Resource", 10, 10),
      Wrapper(111, "ID3D12RootSignature", 11, 11) }

\* A real object the application holds without a wrapper.
RawObject == Real(120)

\* The real objects the real implementation can hand out for an interface
\* identifier: an object that is already wrapped (GetParent returning the
\* factory) or one never seen before.  "IID_Unsupported" is an identifier
\* the layer has no wrapper type for.
DriverObjects(iid) ==
    CASE iid = "IDXGIFactory"        -> {102, 201}
      [] iid = "IDXGIOutput"         -> {202}
      [] iid = "ID3D12PipelineState" -> {203}
      [] iid = "ID3D10Blob"          -> {204}
      [] iid = "IID_Unsupported"     -> {205}
      [] iid = "IDXGIFactory2"       -> {201, 206}
      [] OTHER                       -> {}

Range(f) == {f[x] : x \in DOMAIN f}

\* The wrapper objects that have been constructed and not destroyed.
AllLiveWrappers == {wrappers[n].w : n \in {m \in DOMAIN wrappers : wrappers[m].alive}}

LiveWrappers(t) == {w \in AllLiveWrappers : w.t = t}


(***************************************************************************)
(* The object maps and the reference resolver.                             *)
(***************************************************************************)
FindMapEntry(object, map) == IF object \in DOMAIN map THEN map[object] ELSE NULL

AddWrapperMapEntry(object, wrapper, map) ==
    IF object \in DOMAIN map
    THEN map
    ELSE [x \in DOMAIN map \cup {object} |-> IF x = object THEN wrapper ELSE map[x]]

\* RemoveWrapperMapEntry(object, object_map_, object_map_lock_): the entry
\* under the key is erased; the call names the key only.
RemoveWrapperMapEntry(object, map) == [x \in DOMAIN map \ {object} |-> map[x]]

\* GetExistingWrapper answering with whatever wrapper the map holds.
GetExistingWrapper_AnyEntry(riid, object) ==
    IF DOMAIN object_map_[riid] = {}
    THEN NULL
    ELSE object_map_[riid][CHOOSE x \in DOMAIN object_map_[riid] : TRUE]

\* X_Wrapper::GetExistingWrapper(object)
\* The wrapper types derived from a type that registers: their constructors
\* hand riid and object up the chain of base constructors and add nothing.
DerivedTypes == {"IDXGIFactory2"}

\* The wrapper type whose constructor registers a wrapper of the given
\* type and whose static object_map_ it is registered in:
\* IDXGIFactory2_Wrapper(...) : IDXGIFactory1_Wrapper(...) : IDXGIFactory_Wrapper(...).
Family(riid) == IF riid = "IDXGIFactory2" THEN "IDXGIFactory" ELSE riid

GetExistingWrapper(riid, object) == FindMapEntry(object, object_map_[Family(riid)])

\* encode::GetWrappedObject<T>(p): the real object behind a wrapper; any
\* other pointer (null, a raw real reference) is returned as it is.
GetWrappedObject(p) == IF p.k = "wrap" THEN Real(p.o) ELSE p

\* UnwrapObjects<T>(objects, len, unwrap_memory): a scratch array with the
\* first len elements unwrapped; null for a null array or a zero length.
UnwrapObjects(objects, len) ==
    IF objects = NULL \/ len = 0
    THEN NULL
    ELSE Arr([i \in 1..len |-> GetWrappedObject(objects.elems[i])])

\* UnwrapStructArrayObjects(values, len, unwrap_memory): a scratch array of
\* the first len structures, each with its object fields unwrapped; null
\* for a null array or a zero length.
UnwrapStructArrayObjects(values, len) ==
    IF values = NULL \/ len = 0
    THEN NULL
    ELSE Arr([i \in 1..len |->
                 [f \in DOMAIN values.elems[i] |->
                     IF f \in RefFields THEN GetWrappedObject(values.elems[i][f])
                     ELSE values.elems[i][f]]])

\* UnwrapStructPtrObjects(value, unwrap_memory): a scratch copy of *value
\* with its object fields unwrapped; null for a null pointer.
UnwrapStructPtrObjects(value) ==
    IF value = NULL
    THEN NULL
    ELSE [f \in DOMAIN value |-> IF f \in RefFields THEN GetWrappedObject(value[f]) ELSE value[f]]

\* The CaptureId a real object already has under some wrapper type; 0 if none.
CaptureIdOf(object) ==
    IF \E w \in AllLiveWrappers : w.o = object
    THEN (CHOOSE w \in AllLiveWrappers : w.o = object).id
    ELSE 0

\* WrapObject(riid, object, resources) has something to wrap: *object is a
\* real object and riid names an interface with a wrapper type.
WrapObject(riid, ptr) == ptr.k = "real" /\ riid \in WrapperTypes \cup DerivedTypes

\* The construction with the id allocator handing out again the CaptureId
\* of a destroyed wrapper.
NewWrapper_Recycled(riid, object) ==
    LET known == CaptureIdOf(object)
        freed == {wrappers[n].w.id : n \in {m \in DOMAIN wrappers : ~wrappers[m].alive}}
                     \ {w.id : w \in AllLiveWrappers}
    IN  Wrapper(object, riid,
                IF known # 0 THEN known
                ELSE IF freed # {} THEN CHOOSE id \in freed : TRUE ELSE next_capture_id,
                Len(wrappers) + 1)

\* new X_Wrapper(riid, object, resources): the next wrapper object, under the
\* CaptureId the real object has or, if it has none, the next one.
NewWrapper(riid, object) ==
    LET known == CaptureIdOf(object) IN
    Wrapper(object, riid, IF known # 0 THEN known ELSE next_capture_id, Len(wrappers) + 1)

\* The record of wrapper objects after the named one has been destroyed.
Destroyed(ws, w) == [ws EXCEPT ![w.n].alive = FALSE]

(***************************************************************************)
(* The arguments a caller can supply and what the real implementation can  *)
(* answer.                                                                 *)
(***************************************************************************)
MaxCount == 2     \* elements of an array argument

\* The argument sets come in two widths.  The narrow one holds the
\* arguments of an ordinary call: live wrappers, full arrays, non-null
\* structures.  The wide one adds the corner cases of the resolver: null
\* pointers, raw real references, counts shorter than the array.

\* An object argument: a live wrapper of the parameter's type; or null, or
\* a raw real reference.
ObjArgs(t, wide) == LiveWrappers(t) \cup (IF wide THEN {NULL, RawObject} ELSE {})

\* Array memory of MaxCount elements: wrappers at the odd positions, the
\* raw reference at the even ones; or a null array pointer.
ArrayArgs(t, wide) ==
    {Arr([i \in 1..MaxCount |-> IF i % 2 = 1 THEN w ELSE RawObject]) : w \in LiveWrappers(t)}
    \cup (IF wide THEN {NULL} ELSE {})

CountArgs(wide) == IF wide THEN 0..MaxCount ELSE {MaxCount}

\* A pointer to a structure with one object field beside plain data:
\* D3D12_TEXTURE_COPY_LOCATION.pResource, or the pRootSignature of a
\* D3D12_GRAPHICS_PIPELINE_STATE_DESC, or the ptr of a
\* D3D12_CPU_DESCRIPTOR_HANDLE, which as the layer hands it out refers to
\* the layer's record of a descriptor of a wrapped heap.
StructArgs(t, wide) ==
    LET refs == LiveWrappers(t) \cup (IF wide THEN {NULL} ELSE {}) IN
    (IF t = "ID3D12RootSignature"
     THEN {[k |-> "struct", pRootSignature |-> r, NodeMask |-> 0] : r \in refs}
     ELSE IF t = "ID3D12DescriptorHeap"
          THEN {[k |-> "struct", ptr |-> r] : r \in refs}
          ELSE {[k |-> "struct", pResource |-> r, SubresourceIndex |-> 0] : r \in refs})
    \cup (IF wide THEN {NULL} ELSE {})

\* Array memory of MaxCount structures; or a null array pointer.
StructArrayArgs(t, wide) ==
    {Arr([i \in 1..MaxCount |-> s]) : s \in StructArgs(t, FALSE)}
    \cup (IF wide THEN {NULL} ELSE {})

ArgSet(param, wide) ==
    CASE param.kind = "obj"    -> ObjArgs(param.t, wide)
      [] param.kind = "array"  -> ArrayArgs(param.t, wide)
      [] param.kind = "struct" -> StructArgs(param.t, wide)
      [] param.kind = "structs" -> StructArrayArgs(param.t, wide)
      [] param.kind = "flag"   -> BOOLEAN
      [] param.kind = "count"  -> CountArgs(wide)
      [] param.kind = "riid"   -> param.t
      [] param.kind = "out"    -> {NULL}
      [] OTHER                 -> {0}

RECURSIVE ArgTuples(_, _)
ArgTuples(params, wide) ==
    IF params = << >>
    THEN {<< >>}
    ELSE {<<h>> \o r : h \in ArgSet(Head(params), wide), r \in ArgTuples(Tail(params), wide)}

\* `this` of a method call: a live wrapper of the entry point's type.
ThisObjects(api) == IF api.object = "" THEN {NULL} ELSE LiveWrappers(api.object)

\* HRESULT result{}; D3D12_DESCRIPTOR_HEAP_DESC result{}: the value-initialised
\* local of the body before the real call assigns it.
InitialResult(api) ==
    CASE api.ret = "HRESULT" -> HResult(0)
      [] api.ret = "void"    -> Void
      [] OTHER               -> Value(0)

Results(api) ==
    CASE api.ret = "HRESULT" -> HResults
      [] api.ret = "void"    -> {Void}
      [] OTHER               -> {Value(1)}

\* The identifier an out parameter is requested under.
OutIid(api, args, i) ==
    IF api.params[i].t = "riid" THEN args[ParamIndex(api, "riid")] ELSE api.params[i].t

\* What the real implementation may leave in an out parameter: on success
\* an object of the requested interface (or null where the interface allows
\* it), on failure null (or an object where the interface allows it).
OutValues(api, args, i, result) ==
    LET objects == {Real(o) : o \in DriverObjects(OutIid(api, args, i))} IN
    IF SUCCEEDED(result)
    THEN objects \cup (IF api.params[i].null_ok THEN {NULL} ELSE {})
    ELSE {NULL} \cup (IF api.params[i].on_failure THEN objects ELSE {})

RECURSIVE RealWrites(_, _, _, _)
RealWrites(api, args, result, i) ==
    IF i > Len(args)
    THEN {<< >>}
    ELSE {<<h>> \o r :
            h \in (IF api.params[i].kind = "out" THEN OutValues(api, args, i, result) ELSE {args[i]}),
            r \in RealWrites(api, args, result, i + 1)}

\* The real implementation's answers to a call: its result and the
\* argument memory with the out parameters written.
RealOutcomes(api, args) ==
    UNION {{[result |-> res, args |-> a] : a \in RealWrites(api, args, res, 1)} :
              res \in Results(api)}

(***************************************************************************)
(* The statements of an entry point's body.                                *)
(***************************************************************************)
Top(t) == stack[t][Len(stack[t])]

SetTop(t, f) == [stack EXCEPT ![t] = [@ EXCEPT ![Len(@)] = f]]

\* One counter for the whole process instead of one per thread.
IncrementCallScope_Shared(t) == [u \in Threads |-> call_scope[u] + 1]

\* D3D12CaptureManager::IncrementCallScope / DecrementCallScope: the
\* calling thread's counter, the increment returning the new depth.
IncrementCallScope(t) == [call_scope EXCEPT ![t] = @ + 1]

DecrementCallScope(t) == [call_scope EXCEPT ![t] = @ - 1]

\* The test written as "a call is in progress": if (call_scope >= 1).
IsOutermost_AnyDepth(scope) == scope >= 1

\* if (call_scope == 1)
IsOutermost(scope) == scope = 1

\* The if branch with Encode_X written before the real call.
OutermostSteps_EncodeFirst ==
    <<"PreCall", "Encode", "Forward", "WrapObject", "PostCall", "DecrementCallScope", "Return">>

\* The if branch closed before the post-call hook: DecrementCallScope
\* written between Encode_X and CustomWrapperPostCall.
OutermostSteps_ScopeClosedEarly ==
    <<"PreCall", "Forward", "WrapObject", "Encode", "DecrementCallScope", "PostCall", "Return">>

\* The statements of the if branch and the two after it, in the order of
\* the body.
OutermostSteps ==
    <<"PreCall", "Forward", "WrapObject", "Encode", "PostCall", "DecrementCallScope", "Return">>

\* The statement after the given one.
Then(step) ==
    LET i == CHOOSE j \in DOMAIN OutermostSteps : OutermostSteps[j] = step
    IN  OutermostSteps[i + 1]

\* A body returning its value-initialised local: return HRESULT{};
ReturnValue_Initial(f) == InitialResult(ApiOf(f.api))

\* return result;
ReturnValue(f) == f.result

\* The body with a GetWrappedObject that gives null for whatever is not a
\* wrapper.
ForwardArg_WrappersOnly(api, args, i) ==
    LET how == api.params[i].how IN
    CASE how = "GetWrappedObject"       -> IF args[i].k = "wrap" THEN Real(args[i].o) ELSE NULL
      [] how = "UnwrapObjects"          -> UnwrapObjects(args[i], args[ParamIndex(api, "count")])
      [] how = "UnwrapStructPtrObjects" -> UnwrapStructPtrObjects(args[i])
      [] OTHER                          -> args[i]

\* The body with UnwrapObjects given the length of the array's memory
\* instead of the count argument.
ForwardArg_WholeArray(api, args, i) ==
    LET how == api.params[i].how IN
    CASE how = "GetWrappedObject"       -> GetWrappedObject(args[i])
      [] how = "UnwrapObjects"          -> IF args[i] = NULL THEN NULL
                                           ELSE UnwrapObjects(args[i], Len(args[i].elems))
      [] how = "UnwrapStructPtrObjects" -> UnwrapStructPtrObjects(args[i])
      [] OTHER                          -> args[i]

\* The length with the flag left out of account: NumRenderTargetDescriptors
\* whatever RTsSingleHandleToDescriptorRange says.
StructArrayLength_CountOnly(api, args) == args[ParamIndex(api, "count")]

\* The length UnwrapStructArrayObjects is given: the count argument, or,
\* where the entry point has a single-handle flag,
\* RTsSingleHandleToDescriptorRange ? 1 : NumRenderTargetDescriptors.
StructArrayLength(api, args) ==
    IF ParamIndex(api, "flag") # 0 /\ args[ParamIndex(api, "flag")]
    THEN 1
    ELSE args[ParamIndex(api, "count")]

\* The arguments the outermost path hands to the real implementation (or
\* to the Override): each one as the body passes it.
ForwardArg(api, args, i) ==
    LET how == api.params[i].how IN
    CASE how = "GetWrappedObject"       -> GetWrappedObject(args[i])
      [] how = "UnwrapObjects"          -> UnwrapObjects(args[i], args[ParamIndex(api, "count")])
      [] how = "UnwrapStructPtrObjects" -> UnwrapStructPtrObjects(args[i])
      [] how = "UnwrapStructArrayObjects" ->
             UnwrapStructArrayObjects(args[i], StructArrayLength(api, args))
      [] OTHER                          -> args[i]

ForwardArgs(api, args) == [i \in DOMAIN args |-> ForwardArg(api, args, i)]

\* The arguments the else branch hands to the real implementation.
NestedForwardArgs(api, args) == args

\* The free functions: the entry points of no object, which reach the
\* real implementation through the dispatch table.
FreeFunctions == {api.name : api \in {a \in EntryPoints : a.object = ""}}

\* The real, unhooked entry point of a free function.
RealFunction(name) == [k |-> "fn", name |-> name]

\* The entry a free function calls is the real entry point.
ReachesReal(api) == api.object = "" => dispatch_table[api.name] = RealFunction(api.name)

\* A call through the table that leaves the layer's own entry point in
\* the entry it went through.
DispatchTableAfter_Rebound(api) ==
    IF api.object = ""
    THEN [dispatch_table EXCEPT ![api.name] = [k |-> "fn", name |-> "hooked"]]
    ELSE dispatch_table

\* manager->GetDxgiDispatchTable().X(args...): the table after the call;
\* the entry is read and called, nothing is written.
DispatchTableAfter(api) == dispatch_table

\* The ways of forwarding an argument that build a copy in scratch memory.
ScratchHows == {"UnwrapObjects", "UnwrapStructPtrObjects", "UnwrapStructArrayObjects"}

\* The body has the statement
\* auto unwrap_memory = manager->GetHandleUnwrapMemory();
UsesUnwrapMemory(api) == \E i \in DOMAIN api.params : api.params[i].how \in ScratchHows

\* One buffer handed to every thread.
HandleUnwrapMemoryOf_Shared(t) == "t1"

\* The buffer GetHandleUnwrapMemory hands the calling thread: its own.
HandleUnwrapMemoryOf(t) == t

\* GetHandleUnwrapMemory handing the buffer out as the last call left it.
GetHandleUnwrapMemory_NoReset(memory) == memory

\* GetHandleUnwrapMemory(): the buffer is reset before it is handed out.
GetHandleUnwrapMemory(memory) == << >>

\* The copies the Unwrap calls of the forward build, in argument order:
\* one for every array or structure argument that is not forwarded as
\* null; with each, the thread and the outermost call that built it.
ScratchCopies(t, api, args) ==
    LET made == [i \in DOMAIN args |->
                    [thread |-> t, call |-> issued[t], param |-> i,
                     copy |-> ForwardArg(api, args, i)]]
    IN  SelectSeq(made, LAMBDA b : api.params[b.param].how \in ScratchHows /\ b.copy # NULL)

\* The scratch memory after the forward of an outermost call.
UnwrapMemoryAfter(t, api, args) ==
    IF UsesUnwrapMemory(api)
    THEN [unwrap_memory EXCEPT ![HandleUnwrapMemoryOf(t)] =
             GetHandleUnwrapMemory(@) \o ScratchCopies(t, api, args)]
    ELSE unwrap_memory

\* Both branches of a body with an Override handing the call to it.
Callee_OverrideInBothBranches(api, scope) ==
    IF api.override THEN "Override"
    ELSE IF api.object = "" THEN "DispatchTable" ELSE "Real"

\* What a branch of the body hands the call to: in the if branch of an
\* entry point with one, manager->OverrideX(this, args...); otherwise
\* manager->GetDxgiDispatchTable().X(args...) for a free function and
\* GetWrappedObjectAs<T>()->X(args...) for a method.
Callee(api, scope) ==
    IF IsOutermost(scope) /\ api.override THEN "Override"
    ELSE IF api.object = "" THEN "DispatchTable" ELSE "Real"

\* An else branch that fetched the buffer as the if branch does.
NestedUnwrapMemoryAfter_Fetched(t, api) ==
    [unwrap_memory EXCEPT ![HandleUnwrapMemoryOf(t)] = GetHandleUnwrapMemory(@)]

\* The scratch memory after the forward of a nested call: the else branch
\* has no GetHandleUnwrapMemory and no Unwrap call.
NestedUnwrapMemoryAfter(t, api) == unwrap_memory

\* Encode_X given the unwrapped arguments the real call was given.
EncodeArgs_Resolved(api, args) == ForwardArgs(api, args)

\* The arguments Encode_X and the post-call hook are given.
EncodeArgs(api, args) == args

\* The record Encode_X writes: the call, the CaptureId of `this` (0 for a
\* free function), the result and the arguments with the out parameters as
\* they are when it runs; with it, the thread that wrote it and which of
\* the thread's outermost calls it is of.
TraceRecord(t, f) ==
    [thread |-> t, call |-> issued[t], api |-> f.api,
     object_id |-> IF f.this = NULL THEN 0 ELSE f.this.id,
     result |-> f.result,
     args |-> EncodeArgs(ApiOf(f.api), f.args)]

Logged(f, step, args) == Append(f.log, [step |-> step, args |-> args])

\* The points of a body at which the thread is inside the real
\* implementation, which may call back into an entry point on the same
\* thread: the forwarded call of either branch.
CallbackPoints == {"Forward", "ForwardNested"}

\* The points of an outermost body at which the thread runs the layer's
\* own code or the code it hands the call to: the pre-call hook, the
\* Override or the real implementation, WrapObject, Encode_X, the post-call
\* hook.
HookPoints == {"PreCall", "Forward", "WrapObject", "WrapConstruct", "Encode", "PostCall"}

\* Entry: the application calls an entry point (the thread's stack is
\* empty), or code running at one of the given points of a body calls
\* another on the same thread.
\* auto call_scope = manager->IncrementCallScope(); if (call_scope == 1)
Enter(t, wide, apis, max, points) ==
    /\ calls < max
    /\ stack[t] # << >> => Top(t).pc \in points
    /\ \E api \in apis :
         \E this \in ThisObjects(api), args \in ArgTuples(api.params, wide) :
            LET scope == IncrementCallScope(t)[t]
                frame == [api |-> api.name, this |-> this, call_scope |-> scope,
                          pc |-> IF IsOutermost(scope) THEN OutermostSteps[1] ELSE "ForwardNested",
                          supplied |-> args, args |-> args,
                          result |-> InitialResult(api), real_result |-> NoResult,
                          wrap_i |-> 1, via |-> "none",
                          log |-> << [step |-> "IncrementCallScope", args |-> << >>] >>]
            IN  /\ call_scope' = IncrementCallScope(t)
                /\ stack' = [stack EXCEPT ![t] = Append(@, frame)]
    /\ issued' = IF stack[t] = << >> THEN [issued EXCEPT ![t] = @ + 1] ELSE issued
    /\ calls' = calls + 1
    /\ UNCHANGED <<resolving, loader, dispatch_table, unwrap_memory, locking,
                   trace, encoding_enabled, object_map_, next_capture_id, wrappers>>

\* Entry from the application or from inside the real implementation.
Call(t, wide, apis, max) == Enter(t, wide, apis, max, CallbackPoints)

\* Entry from the application or from inside any part of a body.
CallFromHook(t, apis, max) == Enter(t, FALSE, apis, max, HookPoints \cup CallbackPoints)

\* CustomWrapperPreCall<ApiCall_X>::Dispatch(manager, this, args...)
PreCall(t) ==
    /\ stack[t] # << >>
    /\ Top(t).pc = "PreCall"
    /\ LET f == Top(t) IN
       stack' = SetTop(t, [f EXCEPT !.pc = Then("PreCall"),
                                    !.log = Logged(f, "PreCall", f.args)])
    /\ UNCHANGED <<resolving, loader, dispatch_table, unwrap_memory, locking,
                   call_scope, issued, trace, encoding_enabled, object_map_, next_capture_id,
                   wrappers, calls>>

\* The WrapObject calls without the SUCCEEDED test around them.
WrapsOutputs_Always(api, result) == api.wrap # << >>

\* The WrapObject calls with the SUCCEEDED test turned around.
WrapsOutputs_OnFailure(api, result) == api.wrap # << >> /\ ~SUCCEEDED(result)

\* After the real call: if (SUCCEEDED(result)) { WrapObject(...); }
WrapsOutputs(api, result) == api.wrap # << >> /\ SUCCEEDED(result)

\* The statement after the given one, the WrapObject calls left out when
\* the entry point has none or the real call has failed.
ThenFor(step, api, result) ==
    IF Then(step) = "WrapObject" /\ ~WrapsOutputs(api, result)
    THEN Then("WrapObject")
    ELSE Then(step)

\* result = GetWrappedObjectAs<T>()->X(unwrapped args...), or the dispatch
\* table entry of a free function, or the Override.
Forward(t) ==
    /\ stack[t] # << >>
    /\ Top(t).pc = "Forward"
    /\ LET f == Top(t)
           api == ApiOf(f.api)
       IN  /\ ReachesReal(api)
           /\ unwrap_memory' = UnwrapMemoryAfter(t, api, f.args)
           /\ dispatch_table' = DispatchTableAfter(api)
           /\ \E r \in RealOutcomes(api, f.args) :
                 stack' = SetTop(t, [f EXCEPT !.pc = ThenFor("Forward", api, r.result),
                                              !.result = r.result,
                                              !.real_result = r.result,
                                              !.via = Callee(api, f.call_scope),
                                              !.args = r.args,
                                              !.log = Logged(f, "Forward", ForwardArgs(api, f.args))])
    /\ UNCHANGED <<resolving, loader, locking,
                   call_scope, issued, trace, encoding_enabled, object_map_, next_capture_id,
                   wrappers, calls>>

\* The WrapObject call in hand and the interface identifier it is given.
WrapCall(f) == ApiOf(f.api).wrap[f.wrap_i]

\* WrapObject handed IID_IDXGIFactory whatever the caller asked for.
WrapRiid_Fixed(f) == "IDXGIFactory"

WrapRiid(f) ==
    IF WrapCall(f).iid = "riid"
    THEN f.args[ParamIndex(ApiOf(f.api), "riid")]
    ELSE WrapCall(f).iid

\* The frame once the WrapObject call in hand has left ptr in its out
\* parameter: at the next WrapObject call, or past the last one.
Wrapped(f, ptr) ==
    [f EXCEPT !.pc = IF f.wrap_i = Len(ApiOf(f.api).wrap) THEN Then("WrapObject") ELSE "WrapObject",
              !.wrap_i = @ + 1,
              !.args[WrapCall(f).out] = ptr]

\* WrapObject(riid, ppObject, nullptr), first half: nothing to wrap, or the
\* wrapper GetExistingWrapper finds, or none found and one to construct.
LookedUp(f) ==
    LET ptr == f.args[WrapCall(f).out]
        g == [f EXCEPT !.log = Logged(f, "WrapObject", <<WrapRiid(f), ptr>>)]
    IN  IF ~WrapObject(WrapRiid(f), ptr)
        THEN Wrapped(g, ptr)
        ELSE IF GetExistingWrapper(WrapRiid(f), ptr.o) # NULL
             THEN Wrapped(g, GetExistingWrapper(WrapRiid(f), ptr.o))
             ELSE [g EXCEPT !.pc = "WrapConstruct"]

\* The first half as one step, the map's mutex taken and released in it.
WrapOutput(t) ==
    /\ stack[t] # << >>
    /\ Top(t).pc = "WrapObject"
    /\ stack' = SetTop(t, LookedUp(Top(t)))
    /\ UNCHANGED <<resolving, loader, dispatch_table, unwrap_memory, locking,
                   call_scope, issued, trace, encoding_enabled, object_map_, next_capture_id,
                   wrappers, calls>>

\* WrapObject, second half: a wrapper is constructed, its constructor
\* registering it.  If another wrapper has been registered for the object
\* meanwhile, the new one is destroyed again, its destructor erasing the
\* entry under the object's key, and the registered one is returned.
Constructed(t) ==
       LET f == Top(t)
           riid == WrapRiid(f)
           object == f.args[WrapCall(f).out].o
           created == NewWrapper(riid, object)
           winner == GetExistingWrapper(riid, object)
           constructed == Append(wrappers, [w |-> created, alive |-> TRUE])
       IN  /\ next_capture_id' = IF created.id = next_capture_id
                                 THEN next_capture_id + 1 ELSE next_capture_id
           /\ IF winner = NULL
              THEN /\ object_map_' = [object_map_ EXCEPT ![Family(riid)] = AddWrapperMapEntry(object, created, @)]
                   /\ wrappers' = constructed
                   /\ stack' = SetTop(t, Wrapped(f, created))
              ELSE /\ object_map_' = [object_map_ EXCEPT ![Family(riid)] =
                                         RemoveWrapperMapEntry(object, AddWrapperMapEntry(object, created, @))]
                   /\ wrappers' = Destroyed(constructed, created)
                   /\ stack' = SetTop(t, Wrapped(f, winner))

\* The second half as one step, the map's mutex taken and released in it.
WrapConstruct(t) ==
    /\ stack[t] # << >>
    /\ Top(t).pc = "WrapConstruct"
    /\ Constructed(t)
    /\ UNCHANGED <<resolving, loader, dispatch_table, unwrap_memory, locking,
                   call_scope, issued, trace, encoding_enabled, calls>>

\* Encode_X with a sink that puts the record in front of the others.
Encode_Prepending(t) ==
    /\ stack[t] # << >>
    /\ Top(t).pc = "Encode"
    /\ LET f == Top(t) IN
       /\ stack' = SetTop(t, [f EXCEPT !.pc = ThenFor("Encode", ApiOf(f.api), f.result),
                                       !.log = Logged(f, "Encode", EncodeArgs(ApiOf(f.api), f.args))])
       /\ \E sink_ok \in BOOLEAN :
            IF encoding_enabled /\ sink_ok
            THEN /\ trace' = <<TraceRecord(t, f)>> \o trace
                 /\ UNCHANGED encoding_enabled
            ELSE /\ encoding_enabled' = FALSE
                 /\ UNCHANGED trace
    /\ UNCHANGED <<resolving, loader, dispatch_table, unwrap_memory, locking,
                   call_scope, issued, object_map_, next_capture_id,
                   wrappers, calls>>

\* Encode_X with a sink that is tried again after it has refused a record.
Encode_Retrying(t) ==
    /\ stack[t] # << >>
    /\ Top(t).pc = "Encode"
    /\ LET f == Top(t) IN
       /\ stack' = SetTop(t, [f EXCEPT !.pc = ThenFor("Encode", ApiOf(f.api), f.result),
                                       !.log = Logged(f, "Encode", EncodeArgs(ApiOf(f.api), f.args))])
       /\ \E sink_ok \in BOOLEAN :
            IF sink_ok
            THEN /\ trace' = Append(trace, TraceRecord(t, f))
                 /\ UNCHANGED encoding_enabled
            ELSE /\ encoding_enabled' = FALSE
                 /\ UNCHANGED trace
    /\ UNCHANGED <<resolving, loader, dispatch_table, unwrap_memory, locking,
                   call_scope, issued, object_map_, next_capture_id,
                   wrappers, calls>>

\* Encode_X(GetCaptureId(), result, args...): the record goes to the sink
\* unless encoding is off; a sink that refuses it turns encoding off.
Encoded(t) ==
    LET f == Top(t) IN
    /\ stack' = SetTop(t, [f EXCEPT !.pc = ThenFor("Encode", ApiOf(f.api), f.result),
                                    !.log = Logged(f, "Encode", EncodeArgs(ApiOf(f.api), f.args))])
    /\ \E sink_ok \in BOOLEAN :
         IF encoding_enabled /\ sink_ok
         THEN /\ trace' = Append(trace, TraceRecord(t, f))
              /\ UNCHANGED encoding_enabled
         ELSE /\ encoding_enabled' = FALSE
              /\ UNCHANGED trace

\* Encode_X as one step, the sink's mutex taken and released in it.
Encode(t) ==
    /\ stack[t] # << >>
    /\ Top(t).pc = "Encode"
    /\ Encoded(t)
    /\ UNCHANGED <<resolving, loader, dispatch_table, unwrap_memory, locking,
                   call_scope, issued, object_map_, next_capture_id,
                   wrappers, calls>>

\* CustomWrapperPostCall<ApiCall_X>::Dispatch(manager, this, result, args...)
PostCall(t) ==
    /\ stack[t] # << >>
    /\ Top(t).pc = "PostCall"
    /\ LET f == Top(t) IN
       stack' = SetTop(t, [f EXCEPT !.pc = ThenFor("PostCall", ApiOf(f.api), f.result),
                                    !.log = Logged(f, "PostCall", EncodeArgs(ApiOf(f.api), f.args))])
    /\ UNCHANGED <<resolving, loader, dispatch_table, unwrap_memory, locking,
                   call_scope, issued, trace, encoding_enabled, object_map_, next_capture_id,
                   wrappers, calls>>

\* The else branch with the Encode_X call left in it.
ForwardNested_Encoding(t) ==
    /\ stack[t] # << >>
    /\ Top(t).pc = "ForwardNested"
    /\ LET f == Top(t)
           api == ApiOf(f.api)
       IN  \E r \in RealOutcomes(api, f.args) :
              LET g == [f EXCEPT !.pc = "DecrementCallScope",
                                 !.result = r.result,
                                 !.real_result = r.result,
                                              !.via = Callee(api, f.call_scope),
                                 !.args = r.args,
                                 !.log = Logged(f, "Forward", NestedForwardArgs(api, f.args))]
              IN  /\ stack' = SetTop(t, g)
                  /\ trace' = IF encoding_enabled THEN Append(trace, TraceRecord(t, g)) ELSE trace
    /\ dispatch_table' = DispatchTableAfter(ApiOf(Top(t).api))
    /\ UNCHANGED <<resolving, loader, unwrap_memory, locking,
                   call_scope, issued, encoding_enabled, object_map_, next_capture_id,
                   wrappers, calls>>

\* else { result = GetWrappedObjectAs<T>()->X(args...); }
ForwardNested(t) ==
    /\ stack[t] # << >>
    /\ Top(t).pc = "ForwardNested"
    /\ LET f == Top(t)
           api == ApiOf(f.api)
       IN  /\ ReachesReal(api)
           /\ dispatch_table' = DispatchTableAfter(api)
           /\ unwrap_memory' = NestedUnwrapMemoryAfter(t, api)
           /\ \E r \in RealOutcomes(api, f.args) :
                 stack' = SetTop(t, [f EXCEPT !.pc = "DecrementCallScope",
                                              !.result = r.result,
                                              !.real_result = r.result,
                                              !.via = Callee(api, f.call_scope),
                                              !.args = r.args,
                                              !.log = Logged(f, "Forward", NestedForwardArgs(api, f.args))])
    /\ UNCHANGED <<resolving, loader, locking,
                   call_scope, issued, trace, encoding_enabled, object_map_, next_capture_id,
                   wrappers, calls>>

\* The DecrementCallScope call written inside the if branch only.
Exit_OutermostOnly(t) ==
    /\ stack[t] # << >>
    /\ Top(t).pc = "DecrementCallScope"
    /\ call_scope' = IF Top(t).call_scope = 1 THEN DecrementCallScope(t) ELSE call_scope
    /\ stack' = SetTop(t, [Top(t) EXCEPT !.pc = IF IsOutermost(Top(t).call_scope)
                                                 THEN Then("DecrementCallScope") ELSE "Return",
                                         !.log = Logged(Top(t), "DecrementCallScope", << >>)])
    /\ UNCHANGED <<resolving, loader, dispatch_table, unwrap_memory, locking,
                   issued, trace, encoding_enabled, object_map_, next_capture_id,
                   wrappers, calls>>

\* manager->DecrementCallScope();
Exit(t) ==
    /\ stack[t] # << >>
    /\ Top(t).pc = "DecrementCallScope"
    /\ call_scope' = DecrementCallScope(t)
    /\ stack' = SetTop(t, [Top(t) EXCEPT !.pc = IF IsOutermost(Top(t).call_scope)
                                                 THEN Then("DecrementCallScope") ELSE "Return",
                                         !.log = Logged(Top(t), "DecrementCallScope", << >>)])
    /\ UNCHANGED <<resolving, loader, dispatch_table, unwrap_memory, locking,
                   issued, trace, encoding_enabled, object_map_, next_capture_id,
                   wrappers, calls>>

\* return result;
Return(t) ==
    /\ stack[t] # << >>
    /\ Top(t).pc = "Return"
    /\ stack' = [stack EXCEPT ![t] = SubSeq(@, 1, Len(@) - 1)]
    /\ UNCHANGED <<resolving, loader, dispatch_table, unwrap_memory, locking,
                   call_scope, issued, trace, encoding_enabled, object_map_, next_capture_id,
                   wrappers, calls>>

\* No resolution under way: the buffer not fetched, no argument resolved.
NotResolving == [fetched |-> FALSE, done |-> {}]

(***************************************************************************)
(* The settings loader (util/settings_loader.cpp).  A string is the        *)
(* sequence of its characters, a path the sequence of its components; the  *)
(* empty sequence is the empty string.                                     *)
(***************************************************************************)
MaxSourceLen == 3   \* characters of a string handed to RemoveQuotes

\* size_t arithmetic wraps around; the modulus is larger than the length
\* of every string, as 2^64 is.
SizeModulus == 2^30

Min(a, b) == IF a < b THEN a ELSE b

\* source.front() == '\"' || source.front() == '\''
IsQuote(c) == c = "\"" \/ c = "'"

\* std::string::substr(pos, n) for pos <= size(): the characters from
\* index pos (counted from 0) on, n of them or as many as there are.
Substr(source, pos, n) == SubSeq(source, pos + 1, pos + Min(n, Len(source) - pos))

\* RemoveQuotes taking the quotes off only where both ends hold the same one.
RemoveQuotes_Matching(source) ==
    IF Len(source) >= 2 /\ IsQuote(source[1]) /\ source[Len(source)] = source[1]
    THEN SubSeq(source, 2, Len(source) - 1)
    ELSE source

\* std::string RemoveQuotes(const std::string& source), source not empty.
RemoveQuotes(source) ==
    LET front == IsQuote(source[1])
        back == IsQuote(source[Len(source)])
        start_index == IF front THEN 1 ELSE 0
        quote_count == (IF front THEN 1 ELSE 0) + (IF back THEN 1 ELSE 0)
    IN  IF quote_count > 0
        THEN Substr(source, start_index, (Len(source) - quote_count) % SizeModulus)
        ELSE source

RECURSIVE Strings(_, _)
\* The strings over an alphabet, of the given length at most.
Strings(alphabet, len) ==
    IF len = 0
    THEN {<< >>}
    ELSE LET shorter == Strings(alphabet, len - 1)
         IN  shorter \cup {Append(s, c) : s \in shorter, c \in alphabet}

\* The strings RemoveQuotes is called on: not empty, quotes and other
\* characters at every position.
Sources == Strings({"\"", "'", "x", "y"}, MaxSourceLen) \ {<< >>}

\* No function of the settings loader is being executed.
NotRunning == [fn |-> "none"]

\* settings == nullptr
NullSettings == [k |-> "null"]

\* The environment variables FindLayerSettingsFile reads.
kDataHome == "XDG_DATA_HOME"

kUserHome == "HOME"

kSettingsEnvVar == "VK_LAYER_SETTINGS_PATH"

EnvVars == {kDataHome, kUserHome, kSettingsEnvVar}

kUserShareDir == <<".local", "share">>

kSettingsDir == <<"vulkan", "settings.d">>

kSettingsFilename == "vk_layer_settings.txt"

\* platform::GetEnv(name): the value, empty when the variable is not set.
GetEnv(name) == env[name]

\* filepath::Join(a, b)
Join(a, b) == a \o b

\* filepath::IsFile(path), filepath::IsDirectory(path)
IsFile(path) == path \in disk.files

IsDirectory(path) == path \in disk.dirs

\* The search with HOME consulted first and XDG_DATA_HOME only when HOME
\* is empty.
SystemSearchPath_HomeFirst ==
    IF GetEnv(kUserHome) # << >>
    THEN Join(GetEnv(kUserHome), kUserShareDir)
    ELSE GetEnv(kDataHome)

\* std::string search_path = platform::GetEnv(kDataHome); if it is empty,
\* HOME joined with .local/share/, or empty when HOME is empty too.
SystemSearchPath ==
    IF GetEnv(kDataHome) # << >>
    THEN GetEnv(kDataHome)
    ELSE IF GetEnv(kUserHome) # << >>
         THEN Join(GetEnv(kUserHome), kUserShareDir)
         ELSE << >>

\* The file of the system-specific location (not Windows, not Android):
\* search_path joined with vulkan/settings.d/ and the file name, if that is
\* a file; otherwise settings_file stays empty.
SystemSettingsFile ==
    IF SystemSearchPath # << >>
       /\ IsFile(Append(Join(SystemSearchPath, kSettingsDir), kSettingsFilename))
    THEN Append(Join(SystemSearchPath, kSettingsDir), kSettingsFilename)
    ELSE << >>

\* The file the layer settings environment variable leads to: its value,
\* with the file name joined on when it is a directory, if that is a file.
EnvSettingsFile ==
    LET env_path == GetEnv(kSettingsEnvVar)
        joined == IF IsDirectory(env_path) THEN Join(env_path, <<kSettingsFilename>>) ELSE env_path
    IN  IF env_path # << >> /\ IsFile(joined) THEN joined ELSE << >>

\* The file of the current working directory.
CwdSettingsFile == IF IsFile(<<kSettingsFilename>>) THEN <<kSettingsFilename>> ELSE << >>

\* What the variables can hold and what can be on the disk: each variable
\* unset or naming a place; any of the files the search looks at present
\* or absent; VK_LAYER_SETTINGS_PATH naming nothing, a file or a directory.
Environments ==
    { [v \in EnvVars |-> CASE v = kDataHome -> x [] v = kUserHome -> h [] OTHER -> p] :
         x \in {<< >>, <<"xdg">>}, h \in {<< >>, <<"home">>},
         p \in {<< >>, <<"cfg">>, <<"cfg", "my.txt">>} }

Disks ==
    LET anywhere == SUBSET { <<"xdg", "vulkan", "settings.d", kSettingsFilename>>,
                             <<"home", ".local", "share", "vulkan", "settings.d", kSettingsFilename>>,
                             <<kSettingsFilename>> }
        cfg == { [files |-> {<<"cfg">>}, dirs |-> {}], [files |-> {}, dirs |-> {}] }
               \cup { [files |-> f, dirs |-> {<<"cfg">>}] :
                         f \in SUBSET {<<"cfg", kSettingsFilename>>, <<"cfg", "my.txt">>} }
    IN  { [files |-> a \cup c.files, dirs |-> c.dirs, text |-> << >>, terminated |-> TRUE,
           readable |-> "yes"] : a \in anywhere, c \in cfg }

MaxLines == 2   \* lines of a settings file

kCommentDelimiter == "#"

kDefaultTokenSize == 512

EINVAL == 22

\* The values errno can hold after a failed open or read.
Errnos == {2, 5, 13}

\* The characters a whitespace directive of sscanf skips.
Whitespace == {" ", "\t", "\r", "\n"}

\* %511[^\r\n\t =] and %511[^\r\n \t]: the characters that end the token.
KeyStops == {"\r", "\n", "\t", " ", "="}

ValueStops == {"\r", "\n", " ", "\t"}

RECURSIVE SkipWhitespace(_, _)
\* The index of the first character at or after i that is not whitespace;
\* one past the end when there is none.
SkipWhitespace(s, i) ==
    IF i <= Len(s) /\ s[i] \in Whitespace THEN SkipWhitespace(s, i + 1) ELSE i

RECURSIVE ScanToken(_, _, _, _)
\* A %[^...] conversion of the given width started at i: the index one
\* past the last character it takes.
ScanToken(s, i, stops, width) ==
    IF i <= Len(s) /\ s[i] \notin stops /\ width > 0
    THEN ScanToken(s, i + 1, stops, width - 1)
    ELSE i

\* size_t comment_start = line.find_first_of(kCommentDelimiter);
\* line.erase(comment_start, npos): the line up to its first '#'.
StripComment(line) ==
    IF \E i \in DOMAIN line : line[i] = kCommentDelimiter
    THEN SubSeq(line, 1, (CHOOSE i \in DOMAIN line :
                             /\ line[i] = kCommentDelimiter
                             /\ \A j \in 1..(i - 1) : line[j] # kCommentDelimiter) - 1)
    ELSE line

\* The scan with the '=' between key and value optional.
ScanLine_EqualsOptional(line, key, value) ==
    LET k0 == SkipWhitespace(line, 1)
        k1 == ScanToken(line, k0, KeyStops, kDefaultTokenSize - 1)
        e0 == SkipWhitespace(line, k1)
        v0 == SkipWhitespace(line, IF e0 <= Len(line) /\ line[e0] = "=" THEN e0 + 1 ELSE e0)
        v1 == ScanToken(line, v0, ValueStops, kDefaultTokenSize - 1)
    IN  IF k1 = k0 THEN [count |-> 0, key |-> key, value |-> value]
        ELSE IF v1 = v0 THEN [count |-> 1, key |-> SubSeq(line, k0, k1 - 1), value |-> value]
        ELSE [count |-> 2, key |-> SubSeq(line, k0, k1 - 1), value |-> SubSeq(line, v0, v1 - 1)]

\* sscanf(line.c_str(), " %511[^\r\n\t =] = %511[^\r\n \t]", key, value):
\* the number of conversions made (-1 when the input ends before the
\* first) and the two buffers, each written by its conversion only.
ScanLine(line, key, value) ==
    LET k0 == SkipWhitespace(line, 1)
        k1 == ScanToken(line, k0, KeyStops, kDefaultTokenSize - 1)
        e0 == SkipWhitespace(line, k1)
        v0 == SkipWhitespace(line, e0 + 1)
        v1 == ScanToken(line, v0, ValueStops, kDefaultTokenSize - 1)
    IN  IF k0 > Len(line) THEN [count |-> 0 - 1, key |-> key, value |-> value]
        ELSE IF k1 = k0 THEN [count |-> 0, key |-> key, value |-> value]
        ELSE IF e0 > Len(line) \/ line[e0] # "=" \/ v1 = v0
             THEN [count |-> 1, key |-> SubSeq(line, k0, k1 - 1), value |-> value]
             ELSE [count |-> 2, key |-> SubSeq(line, k0, k1 - 1), value |-> SubSeq(line, v0, v1 - 1)]

\* The filter test passing every key.
PassesFilter_Always(key, filter) == TRUE

\* filter.empty() || (platform::StringCompare(key, filter.c_str(), filter.length()) == 0)
PassesFilter(key, filter) ==
    \/ filter = << >>
    \/ /\ Len(key) >= Len(filter)
       /\ SubSeq(key, 1, Len(filter)) = filter

\* A settings map holding the given entries.
SettingsMap(entries) == [k |-> "map", entries |-> entries]

\* (*settings)[key] = value
Stored(map, key, value) ==
    SettingsMap([x \in DOMAIN map.entries \cup {key} |->
                    IF x = key THEN value ELSE map.entries[x]])

\* The body of the loop for one line: the map after it.
LineStored(map, line, key, value, filter) ==
    LET scan == ScanLine(StripComment(line), key, value) IN
    IF scan.count = 2 /\ PassesFilter(scan.key, filter)
    THEN Stored(map, scan.key, RemoveQuotes(scan.value))
    ELSE map

\* A stream that is good() after reading a last line that no newline ends.
GetLine_EofAtNextRead(text, terminated, pos) ==
    IF pos < Len(text)
    THEN [line |-> text[pos + 1], pos |-> pos + 1, eof |-> FALSE, fail |-> FALSE]
    ELSE [line |-> << >>, pos |-> pos, eof |-> TRUE, fail |-> TRUE]

\* std::getline(file, line) on a stream that has given pos lines: the next
\* line, with eofbit set when the end of the file is met before a newline,
\* and failbit as well when no character was there to take.
GetLine(text, terminated, pos) ==
    IF pos < Len(text)
    THEN [line |-> text[pos + 1], pos |-> pos + 1,
          eof |-> (pos + 1 = Len(text) /\ ~terminated), fail |-> FALSE]
    ELSE [line |-> << >>, pos |-> pos, eof |-> TRUE, fail |-> TRUE]

\* file.good()
Good(file) == ~file.eof /\ ~file.fail /\ ~file.bad

\* The lines a settings file is made of.
Lines ==
    { <<"a", "b", "=", "1">>,
      <<"a", "b", " ", "=", " ", "2">>,
      <<"b", "=", "3">>,
      <<"a", "b", "=", "'", "q", "'">>,
      <<"a", "b", "=", "4", "#", "c">>,
      <<"#", "a", "b", "=", "5">>,
      <<"a", "b", " ", "6">>,
      <<"\t", "a", "=", "7", " ", "x">>,
      <<"a", "b", "=", "#", "8">>,
      << >> }

RECURSIVE Texts(_)
\* The texts of so many lines at most.
Texts(len) ==
    IF len = 0
    THEN {<< >>}
    ELSE LET shorter == Texts(len - 1)
         IN  shorter \cup {Append(t, l) : t \in shorter, l \in Lines}

\* The filters and the maps a caller passes: no filter or a prefix; a null
\* pointer, an empty map or a map with entries.
Filters == {<< >>, <<"a">>}

SettingsArgs ==
    { NullSettings,
      SettingsMap(<< >>),
      SettingsMap([x \in {<<"a", "b">>, <<"z">>} |-> <<"o", "l", "d">>]) }

\* The disks for a load: the file there or not, readable, unreadable or
\* failing part-way; its text ending in a newline or not (a text without
\* lines is the empty file, and a last line without a newline has
\* characters).
LoadDisks ==
    { [files |-> f, dirs |-> {}, text |-> t, terminated |-> nl, readable |-> r] :
         f \in {{}, {<<kSettingsFilename>>}}, t \in Texts(MaxLines), nl \in BOOLEAN,
         r \in {"yes", "no", "partly"} }

RealLoadDisks ==
    { d \in LoadDisks :
         /\ ~d.terminated => d.text # << >> /\ d.text[Len(d.text)] # << >>
         /\ d.text = << >> => d.terminated
         /\ (d.files = {} \/ d.readable = "no") => d.text = << >> }

\* A process with none of the variables set, no settings file anywhere and
\* no call into the loader.
LoaderIdle ==
    /\ env = [v \in EnvVars |-> << >>]
    /\ disk = [files |-> {}, dirs |-> {}, text |-> << >>, terminated |-> TRUE, readable |-> "yes"]
    /\ settings = NullSettings
    /\ running = NotRunning

\* The capture layer once the application's device objects exist and
\* before the first modelled call.

InitCapture ==
    /\ call_scope = [t \in Threads |-> 0]
    /\ stack = [t \in Threads |-> << >>]
    /\ issued = [t \in Threads |-> 0]
    /\ trace = << >>
    /\ encoding_enabled = TRUE
    /\ object_map_ = [t \in WrapperTypes |->
                        [o \in {w.o : w \in {x \in InitialWrappers : x.t = t}} |->
                            CHOOSE w \in InitialWrappers : w.t = t /\ w.o = o]]
    /\ next_capture_id = 12
    /\ wrappers = [n \in 1..Cardinality(InitialWrappers) |->
                     [w |-> CHOOSE w \in InitialWrappers : w.n = n, alive |-> TRUE]]
    /\ calls = 0
    /\ dispatch_table = [name \in FreeFunctions |-> RealFunction(name)]
    /\ unwrap_memory = [t \in Threads |-> << >>]
    /\ object_map_lock_ = [t \in WrapperTypes |-> NoThread]
    /\ sink_lock = NoThread
    /\ destroying = [t \in Threads |-> NULL]
    /\ resolving = [t \in Threads |-> NotResolving]

\* The capture layer at its start, in a process that loads no settings.
Init == InitCapture /\ LoaderIdle

Next ==
    \E t \in Threads :
        \/ Call(t, FALSE, Apis, MaxCalls)
        \/ PreCall(t)
        \/ Forward(t)
        \/ WrapOutput(t)
        \/ WrapConstruct(t)
        \/ Encode(t)
        \/ PostCall(t)
        \/ ForwardNested(t)
        \/ Exit(t)
        \/ Return(t)

Spec == Init /\ [][Next]_vars

\* One thread, the wide argument sets, the entry points that take object
\* references: the runs the resolver is checked on.
ResolvingApis == {api \in Apis : \E i \in DOMAIN api.params : api.params[i].how # ""}

NextArgs ==
    \/ Call("t1", TRUE, ResolvingApis, MaxCalls)
    \/ PreCall("t1")
    \/ Forward("t1")
    \/ WrapOutput("t1")
    \/ WrapConstruct("t1")
    \/ Encode("t1")
    \/ PostCall("t1")
    \/ ForwardNested("t1")
    \/ Exit("t1")
    \/ Return("t1")

SpecArgs == Init /\ [][NextArgs]_vars

\* Two threads, longer runs over three entry points: the runs with calls
\* nested two deep and with a thread entering while another is nested.
NestingApis ==
    { IDXGIObject_GetParent, ID3D12CommandQueue_ExecuteCommandLists,
      ID3DDestructionNotifier_RegisterDestructionCallback }

NextNesting ==
    \E t \in Threads :
        \/ Call(t, FALSE, NestingApis, MaxNestingCalls)
        \/ PreCall(t)
        \/ Forward(t)
        \/ WrapOutput(t)
        \/ WrapConstruct(t)
        \/ Encode(t)
        \/ PostCall(t)
        \/ ForwardNested(t)
        \/ Exit(t)
        \/ Return(t)

SpecNesting == Init /\ [][NextNesting]_vars

\* Two threads over the entry points that wrap what they return: a free
\* function asked for an interface by riid, a method asked likewise, and a
\* free function with two outputs of a fixed interface.
WrappingApis == {CreateDXGIFactory, IDXGIObject_GetParent, D3D12SerializeRootSignature}

NextWrapping ==
    \E t \in Threads :
        \/ Call(t, FALSE, WrappingApis, MaxWrappingCalls)
        \/ PreCall(t)
        \/ Forward(t)
        \/ WrapOutput(t)
        \/ WrapConstruct(t)
        \/ Encode(t)
        \/ PostCall(t)
        \/ ForwardNested(t)
        \/ Exit(t)
        \/ Return(t)

SpecWrapping == Init /\ [][NextWrapping]_vars

\* The wrapper is in the hands of a call in progress: it is the call's
\* object or the value of one of its arguments.
InUse(w) ==
    \E t \in Threads : \E i \in DOMAIN stack[t] :
        \/ stack[t][i].this = w
        \/ \E j \in DOMAIN stack[t][i].args :
              /\ ApiOf(stack[t][i].api).params[j].kind \in {"obj", "out"}
              /\ stack[t][i].args[j] = w

\* The wrappers the application was handed by a call of the run.
Handed == {w \in AllLiveWrappers : w.n > Cardinality(InitialWrappers)}

\* X_Wrapper::~X_Wrapper() without the RemoveWrapperMapEntry call.
DestroyWrapper_KeepEntry(w) ==
    /\ w \in Handed
    /\ ~InUse(w)
    /\ wrappers' = Destroyed(wrappers, w)
    /\ UNCHANGED <<resolving, loader, dispatch_table, unwrap_memory, locking,
                   call_scope, stack, issued, trace, encoding_enabled, object_map_,
                   next_capture_id, calls>>

\* X_Wrapper::~X_Wrapper(), run when the application gives up its last
\* reference to a wrapper it was handed: CustomWrapperDestroyCall(this);
\* RemoveWrapperMapEntry(GetWrappedObjectAs<X>(), object_map_, object_map_lock_);
DestroyWrapper(w) ==
    /\ w \in Handed
    /\ ~InUse(w)
    /\ wrappers' = Destroyed(wrappers, w)
    /\ object_map_' = [object_map_ EXCEPT ![Family(w.t)] = RemoveWrapperMapEntry(w.o, @)]
    /\ UNCHANGED <<resolving, loader, dispatch_table, unwrap_memory, locking,
                   call_scope, stack, issued, trace, encoding_enabled, next_capture_id, calls>>

\* Two threads over two entry points that hand out objects, the application
\* releasing what it was handed: the runs wrappers are created and
\* destroyed in.
LifetimeApis == {IDXGIObject_GetParent, ID3D12PipelineLibrary_LoadGraphicsPipeline}

NextLifetime ==
    \/ \E t \in Threads :
        \/ Call(t, FALSE, LifetimeApis, MaxLifetimeCalls)
        \/ PreCall(t)
        \/ Forward(t)
        \/ WrapOutput(t)
        \/ WrapConstruct(t)
        \/ Encode(t)
        \/ PostCall(t)
        \/ ForwardNested(t)
        \/ Exit(t)
        \/ Return(t)
    \/ \E n \in DOMAIN wrappers : DestroyWrapper(wrappers[n].w)

SpecLifetime == Init /\ [][NextLifetime]_vars

\* One thread over three entry points, one of them with an Override, any
\* part of a body calling back into an entry point: the runs with calls
\* made from the hooks, the Override, WrapObject and Encode_X.
HookApis == {IDXGIObject_SetPrivateDataInterface, IDXGIObject_GetParent,
             ID3D12PipelineLibrary_LoadGraphicsPipeline}

NextHooks ==
    \/ CallFromHook("t1", HookApis, MaxHookCalls)
    \/ PreCall("t1")
    \/ Forward("t1")
    \/ WrapOutput("t1")
    \/ WrapConstruct("t1")
    \/ Encode("t1")
    \/ PostCall("t1")
    \/ ForwardNested("t1")
    \/ Exit("t1")
    \/ Return("t1")

SpecHooks == Init /\ [][NextHooks]_vars

\* Two threads over two entry points that resolve into scratch memory and
\* one that does not: the runs in which a thread's later call finds the
\* copies of its earlier one.
ScratchApis == {ID3D12GraphicsCommandList_CopyTextureRegion, ID3D12CommandQueue_ExecuteCommandLists,
                IDXGIObject_SetPrivateDataInterface}

NextScratch ==
    \E t \in Threads :
        \/ Call(t, FALSE, ScratchApis, MaxScratchCalls)
        \/ PreCall(t)
        \/ Forward(t)
        \/ Encode(t)
        \/ PostCall(t)
        \/ ForwardNested(t)
        \/ Exit(t)
        \/ Return(t)

SpecScratch == Init /\ [][NextScratch]_vars

(***************************************************************************)
(* The same statements in finer steps: a mutex is taken in one step and    *)
(* released in the step that ends the critical section, and a destructor   *)
(* runs its hook in one step and removes its entry in a later one.         *)
(***************************************************************************)
\* A mutex left locked when the critical section ends.
Unlock_Forgotten(holder) == holder

\* The end of a std::lock_guard's scope.
Unlock(holder) == NoThread

\* The sink's mutex kept by the writer after the write.
SinkUnlock_Forgotten(holder) == holder

\* The sink's mutex given up when the record is written.
SinkUnlock(holder) == NoThread

\* The WrapObject call in hand has something to look up in a map.
NeedsLookup(t) ==
    /\ stack[t] # << >>
    /\ Top(t).pc = "WrapObject"
    /\ WrapObject(WrapRiid(Top(t)), Top(t).args[WrapCall(Top(t)).out])

\* The map whose mutex the thread's next map operation takes: the map of
\* the interface being wrapped, or of the wrapper being destroyed.
MapInHand(t) ==
    Family(IF destroying[t] # NULL THEN destroying[t].t ELSE WrapRiid(Top(t)))

\* std::lock_guard<std::mutex> lock(object_map_lock_), in FindMapEntry,
\* AddWrapperMapEntry and RemoveWrapperMapEntry: the thread goes on once
\* no thread holds the mutex.
LockMap(t) ==
    /\ \/ NeedsLookup(t)
       \/ stack[t] # << >> /\ Top(t).pc = "WrapConstruct"
       \/ destroying[t] # NULL
    /\ object_map_lock_[MapInHand(t)] = NoThread
    /\ object_map_lock_' = [object_map_lock_ EXCEPT ![MapInHand(t)] = t]
    /\ UNCHANGED <<resolving, loader, dispatch_table, unwrap_memory, sink_lock, destroying,
                   call_scope, stack, issued, trace, encoding_enabled, object_map_,
                   next_capture_id, wrappers, calls>>

\* WrapObject with nothing to look up: a null pointer, an interface the
\* layer has no wrapper for.
WrapNothing(t) ==
    /\ ~NeedsLookup(t)
    /\ WrapOutput(t)

\* GetExistingWrapper under the map's mutex.
FindLocked(t) ==
    /\ NeedsLookup(t)
    /\ object_map_lock_[MapInHand(t)] = t
    /\ stack' = SetTop(t, LookedUp(Top(t)))
    /\ object_map_lock_' = [object_map_lock_ EXCEPT ![MapInHand(t)] = Unlock(@)]
    /\ UNCHANGED <<resolving, loader, dispatch_table, unwrap_memory, sink_lock, destroying,
                   call_scope, issued, trace, encoding_enabled, object_map_,
                   next_capture_id, wrappers, calls>>

\* The constructor's AddWrapperMapEntry under the map's mutex and, for the
\* wrapper that finds the object registered, its destructor.
ConstructLocked(t) ==
    /\ stack[t] # << >>
    /\ Top(t).pc = "WrapConstruct"
    /\ object_map_lock_[MapInHand(t)] = t
    /\ Constructed(t)
    /\ object_map_lock_' = [object_map_lock_ EXCEPT ![MapInHand(t)] = Unlock(@)]
    /\ UNCHANGED <<resolving, loader, dispatch_table, unwrap_memory, sink_lock, destroying,
                   call_scope, issued, trace, encoding_enabled, calls>>

\* The sink's mutex, taken by Encode_X before it writes.
LockSink(t) ==
    /\ stack[t] # << >>
    /\ Top(t).pc = "Encode"
    /\ sink_lock = NoThread
    /\ sink_lock' = t
    /\ UNCHANGED <<resolving, loader, dispatch_table, unwrap_memory, object_map_lock_, destroying,
                   call_scope, stack, issued, trace, encoding_enabled, object_map_,
                   next_capture_id, wrappers, calls>>

\* Encode_X writing under the sink's mutex.
EncodeLocked(t) ==
    /\ stack[t] # << >>
    /\ Top(t).pc = "Encode"
    /\ sink_lock = t
    /\ Encoded(t)
    /\ sink_lock' = SinkUnlock(sink_lock)
    /\ UNCHANGED <<resolving, loader, dispatch_table, unwrap_memory, object_map_lock_, destroying,
                   call_scope, issued, object_map_, next_capture_id, wrappers, calls>>

\* The wrappers whose destructor is running.
BeingDestroyed == {destroying[t] : t \in Threads} \ {NULL}

\* X_Wrapper::~X_Wrapper(), first statement: a thread that is in no call
\* gives up the application's last reference to a wrapper and the
\* destructor runs its hook. CustomWrapperDestroyCall(this);
DestroyCall(t, w) ==
    /\ stack[t] = << >>
    /\ destroying[t] = NULL
    /\ w \in Handed
    /\ w \notin BeingDestroyed
    /\ ~InUse(w)
    /\ destroying' = [destroying EXCEPT ![t] = w]
    /\ UNCHANGED <<resolving, loader, dispatch_table, unwrap_memory, object_map_lock_, sink_lock,
                   call_scope, stack, issued, trace, encoding_enabled, object_map_,
                   next_capture_id, wrappers, calls>>

\* X_Wrapper::~X_Wrapper(), second statement, under the map's mutex:
\* RemoveWrapperMapEntry(GetWrappedObjectAs<X>(), object_map_, object_map_lock_);
DestroyRemove(t) ==
    /\ destroying[t] # NULL
    /\ object_map_lock_[MapInHand(t)] = t
    /\ object_map_' = [object_map_ EXCEPT ![Family(destroying[t].t)] = RemoveWrapperMapEntry(destroying[t].o, @)]
    /\ wrappers' = Destroyed(wrappers, destroying[t])
    /\ destroying' = [destroying EXCEPT ![t] = NULL]
    /\ object_map_lock_' = [object_map_lock_ EXCEPT ![MapInHand(t)] = Unlock(@)]
    /\ UNCHANGED <<resolving, loader, dispatch_table, unwrap_memory, sink_lock,
                   call_scope, stack, issued, trace, encoding_enabled,
                   next_capture_id, calls>>

\* An entry-point call by a thread that is not running a destructor.
CallIdle(t, apis, max) ==
    /\ destroying[t] = NULL
    /\ Call(t, FALSE, apis, max)

\* What a thread does without the application's doing: every step but the
\* entry into a call and the release of a wrapper.
Progress(t) ==
    \/ PreCall(t)
    \/ Forward(t)
    \/ WrapNothing(t)
    \/ LockMap(t)
    \/ FindLocked(t)
    \/ ConstructLocked(t)
    \/ LockSink(t)
    \/ EncodeLocked(t)
    \/ PostCall(t)
    \/ ForwardNested(t)
    \/ Exit(t)
    \/ Return(t)
    \/ DestroyRemove(t)

\* Two threads over three entry points that hand out objects, the
\* application releasing what it was handed, in the finer steps.
LockApis == {CreateDXGIFactory, IDXGIObject_GetParent, ID3D12PipelineLibrary_LoadGraphicsPipeline}

NextLocks ==
    \E t \in Threads :
        \/ CallIdle(t, LockApis, MaxLockCalls)
        \/ \E n \in DOMAIN wrappers : DestroyCall(t, wrappers[n].w)
        \/ PreCall(t)
        \/ Forward(t)
        \/ WrapNothing(t)
        \/ LockMap(t)
        \/ FindLocked(t)
        \/ ConstructLocked(t)
        \/ LockSink(t)
        \/ EncodeLocked(t)
        \/ PostCall(t)
        \/ ForwardNested(t)
        \/ Exit(t)
        \/ Return(t)
        \/ DestroyRemove(t)

SpecLocks == Init /\ [][NextLocks]_vars

\* The same runs with every thread going on whenever it can: the real
\* implementation returns, the sink write completes, a mutex that stays
\* free is taken.
SpecLocksFair == SpecLocks /\ \A t \in Threads : WF_vars(Progress(t))

(***************************************************************************)
(* The settings loader, function by function.                              *)
(***************************************************************************)
\* A caller is about to call RemoveQuotes(source).
InitQuotes ==
    /\ InitCapture
    /\ env = [v \in EnvVars |-> << >>]
    /\ disk = [files |-> {}, dirs |-> {}, text |-> << >>, terminated |-> TRUE, readable |-> "yes"]
    /\ settings = NullSettings
    /\ \E source \in Sources :
          running = [fn |-> "RemoveQuotes", pc |-> "call", source |-> source, result |-> << >>]

\* The call of RemoveQuotes, from entry to return.
RemoveQuotesCall ==
    /\ running.fn = "RemoveQuotes"
    /\ running.pc = "call"
    /\ running' = [running EXCEPT !.pc = "returned", !.result = RemoveQuotes(running.source)]
    /\ UNCHANGED <<call_scope, stack, issued, trace, encoding_enabled, object_map_, next_capture_id,
                   wrappers, calls, dispatch_table, unwrap_memory, locking, resolving,
                   env, disk, settings>>

NextQuotes == RemoveQuotesCall

SpecQuotes == InitQuotes /\ [][NextQuotes]_vars

\* A caller is about to call FindLayerSettingsFile().
InitFind ==
    /\ InitCapture
    /\ env \in Environments
    /\ disk \in Disks
    /\ settings = NullSettings
    /\ running = [fn |-> "FindLayerSettingsFile", pc |-> "system", settings_file |-> << >>]

FindStep(pc, next, settings_file) ==
    /\ running.fn = "FindLayerSettingsFile"
    /\ running.pc = pc
    /\ running' = [running EXCEPT !.pc = next, !.settings_file = settings_file]
    /\ UNCHANGED <<call_scope, stack, issued, trace, encoding_enabled, object_map_, next_capture_id,
                   wrappers, calls, dispatch_table, unwrap_memory, locking, resolving,
                   env, disk, settings>>

\* The system-specific location (lines 144-168).
FindSystem == FindStep("system", "env", SystemSettingsFile)

\* if (settings_file.empty()) { the environment variable } (lines 171-190)
FindEnv ==
    FindStep("env", "cwd",
             IF running.settings_file = << >> THEN EnvSettingsFile ELSE running.settings_file)

\* if (settings_file.empty()) { the current working directory } (lines 192-199)
FindCwd ==
    FindStep("cwd", "return",
             IF running.settings_file = << >> THEN CwdSettingsFile ELSE running.settings_file)

\* return settings_file;
FindReturn == FindStep("return", "returned", running.settings_file)

NextFind == FindSystem \/ FindEnv \/ FindCwd \/ FindReturn

SpecFind == InitFind /\ [][NextFind]_vars

\* An open that succeeds whatever is on the disk.
Opens_Always(filename) == TRUE

\* std::ifstream file(filename); file.good(): the file is there and may
\* be read.
Opens(filename) == IsFile(filename) /\ disk.readable # "no"

\* std::ifstream before it is opened.
ClosedFile == [opened |-> FALSE, pos |-> 0, eof |-> FALSE, fail |-> FALSE, bad |-> FALSE]

\* A caller is about to call LoadLayerSettingsFile(filename, filter, settings).
InitLoad ==
    /\ InitCapture
    /\ env = [v \in EnvVars |-> << >>]
    /\ disk \in RealLoadDisks
    /\ settings \in SettingsArgs
    /\ \E filter \in Filters :
          running = [fn |-> "LoadLayerSettingsFile", pc |-> "entry",
                     filename |-> <<kSettingsFilename>>, filter |-> filter, given |-> settings,
                     file |-> ClosedFile, line |-> << >>, key |-> << >>, value |-> << >>,
                     result |-> 0]

\* What a std::getline call can leave: the next line, or, on a disk that
\* fails part-way, a read error (badbit, nothing extracted).
ReadOutcomes(pos) ==
    {[bad |-> FALSE] @@ GetLine(disk.text, disk.terminated, pos)}
    \cup (IF disk.readable = "partly"
          THEN {[line |-> << >>, pos |-> pos, eof |-> FALSE, fail |-> TRUE, bad |-> TRUE]}
          ELSE {})

\* The stream and the line after a std::getline call.
AfterRead(r, read) ==
    [r EXCEPT !.line = read.line,
              !.file = [opened |-> TRUE, pos |-> read.pos, eof |-> read.eof,
                        fail |-> read.fail, bad |-> read.bad]]

LoadUnchanged ==
    UNCHANGED <<call_scope, stack, issued, trace, encoding_enabled, object_map_, next_capture_id,
                wrappers, calls, dispatch_table, unwrap_memory, locking, resolving, env, disk>>

\* Entry: the null test, the opening of the file and, on an open file, the
\* first std::getline; on a file that does not open, result = errno.
LoadOpen ==
    /\ running.fn = "LoadLayerSettingsFile"
    /\ running.pc = "entry"
    /\ IF settings = NullSettings
       THEN running' = [running EXCEPT !.pc = "returned", !.result = EINVAL]
       ELSE IF Opens(running.filename)
            THEN \E read \in ReadOutcomes(0) :
                    running' = AfterRead([running EXCEPT !.pc = "loop"], read)
            ELSE \E errno \in Errnos :
                    running' = [running EXCEPT !.pc = "returned", !.result = errno,
                                               !.file.fail = TRUE]
    /\ UNCHANGED settings
    /\ LoadUnchanged

\* One turn of while (file.good()): the comment stripped, the line scanned,
\* the entry stored if the key passes the filter, the next line read.
LoadLine ==
    /\ running.fn = "LoadLayerSettingsFile"
    /\ running.pc = "loop"
    /\ Good(running.file)
    /\ LET scan == ScanLine(StripComment(running.line), running.key, running.value) IN
       /\ settings' = LineStored(settings, running.line, running.key, running.value, running.filter)
       /\ \E read \in ReadOutcomes(running.file.pos) :
             running' = AfterRead([running EXCEPT !.key = scan.key, !.value = scan.value], read)
    /\ LoadUnchanged

\* After the loop: if (!file.eof()) result = errno; return result;
LoadReturn ==
    /\ running.fn = "LoadLayerSettingsFile"
    /\ running.pc = "loop"
    /\ ~Good(running.file)
    /\ IF ~running.file.eof
       THEN \E errno \in Errnos : running' = [running EXCEPT !.pc = "returned", !.result = errno]
       ELSE running' = [running EXCEPT !.pc = "returned"]
    /\ UNCHANGED settings
    /\ LoadUnchanged

NextLoad == LoadOpen \/ LoadLine \/ LoadReturn

SpecLoad == InitLoad /\ [][NextLoad]_vars

\* One thread over OMSetRenderTargets with the wide argument sets: every
\* count, the single-handle flag set and clear, null and non-null pointers.
MaxTargetCalls == 2    \* entry-point calls made in a run over OMSetRenderTargets

RenderTargetApis == {ID3D12GraphicsCommandList_OMSetRenderTargets}

NextRenderTargets ==
    \/ Call("t1", TRUE, RenderTargetApis, MaxTargetCalls)
    \/ PreCall("t1")
    \/ Forward("t1")
    \/ Encode("t1")
    \/ PostCall("t1")
    \/ ForwardNested("t1")
    \/ Exit("t1")
    \/ Return("t1")

SpecRenderTargets == Init /\ [][NextRenderTargets]_vars

(***************************************************************************)
(* The forward of an outermost call in finer steps: the buffer is fetched, *)
(* each Unwrap call of the argument list builds its copy, the real         *)
(* implementation runs on the copies (and may call back), and returns.     *)
(***************************************************************************)
MaxResolveCalls == 2   \* entry-point calls made in a run in the steps of a forward

ResolveApis == {ID3D12GraphicsCommandList_CopyTextureRegion, ID3D12CommandQueue_ExecuteCommandLists,
                ID3D12GraphicsCommandList_OMSetRenderTargets}

\* The arguments that go through an Unwrap call which takes unwrap_memory.
ScratchParams(api) == {i \in DOMAIN api.params : api.params[i].how \in ScratchHows}

\* An allocation that reuses the start of the buffer.
Allocated_Overwriting(memory, block) == <<block>>

\* HandleUnwrapMemory handing out the next free block of the buffer.
Allocated(memory, block) == Append(memory, block)

\* The outermost call of the thread has built every copy it forwards.
Resolved(t) ==
    LET api == ApiOf(stack[t][1].api) IN
    UsesUnwrapMemory(api) =>
        /\ resolving[t].fetched
        /\ resolving[t].done = ScratchParams(api)

\* What the real implementation is handed once the copies are built: for an
\* argument that went through an Unwrap call, the block of the buffer that
\* call returned (null where it built none); the others as ForwardArg.
ResolvedArgs(t, api, args) ==
    LET memory == unwrap_memory[HandleUnwrapMemoryOf(t)]
        blocks(i) == {j \in DOMAIN memory : memory[j].param = i /\ memory[j].call = issued[t]}
    IN  [i \in DOMAIN args |->
            IF i \in ScratchParams(api)
            THEN IF blocks(i) = {} THEN NULL ELSE memory[CHOOSE j \in blocks(i) : TRUE].copy
            ELSE ForwardArg(api, args, i)]

\* Entry from the application, or from inside the real implementation once
\* the outermost call has reached it.
CallResolving(t) ==
    /\ Len(stack[t]) = 1 => Resolved(t)
    /\ Call(t, FALSE, ResolveApis, MaxResolveCalls)

\* auto unwrap_memory = manager->GetHandleUnwrapMemory();
FetchMemory(t) ==
    /\ stack[t] # << >>
    /\ Top(t).pc = "Forward"
    /\ UsesUnwrapMemory(ApiOf(Top(t).api))
    /\ ~resolving[t].fetched
    /\ unwrap_memory' = [unwrap_memory EXCEPT ![HandleUnwrapMemoryOf(t)] = GetHandleUnwrapMemory(@)]
    /\ resolving' = [resolving EXCEPT ![t].fetched = TRUE]
    /\ UNCHANGED <<loader, dispatch_table, locking, call_scope, stack, issued, trace,
                   encoding_enabled, object_map_, next_capture_id, wrappers, calls>>

\* One Unwrap call of the argument list. The order in which the arguments
\* of a call are evaluated is unspecified, so any one not yet built is next.
Resolve(t) ==
    /\ stack[t] # << >>
    /\ Top(t).pc = "Forward"
    /\ resolving[t].fetched
    /\ LET f == Top(t)
           api == ApiOf(f.api)
       IN  \E i \in ScratchParams(api) \ resolving[t].done :
              LET copy == ForwardArg(api, f.args, i)
                  block == [thread |-> t, call |-> issued[t], param |-> i, copy |-> copy]
              IN  /\ unwrap_memory' =
                        IF copy = NULL
                        THEN unwrap_memory
                        ELSE [unwrap_memory EXCEPT ![HandleUnwrapMemoryOf(t)] = Allocated(@, block)]
                  /\ resolving' = [resolving EXCEPT ![t].done = @ \cup {i}]
    /\ UNCHANGED <<loader, dispatch_table, locking, call_scope, stack, issued, trace,
                   encoding_enabled, object_map_, next_capture_id, wrappers, calls>>

\* The real implementation returns from the call it was handed the copies
\* for.
ForwardResolved(t) ==
    /\ stack[t] # << >>
    /\ Top(t).pc = "Forward"
    /\ Resolved(t)
    /\ LET f == Top(t)
           api == ApiOf(f.api)
       IN  /\ ReachesReal(api)
           /\ dispatch_table' = DispatchTableAfter(api)
           /\ \E r \in RealOutcomes(api, f.args) :
                 stack' = SetTop(t, [f EXCEPT !.pc = ThenFor("Forward", api, r.result),
                                              !.result = r.result,
                                              !.real_result = r.result,
                                              !.via = Callee(api, f.call_scope),
                                              !.args = r.args,
                                              !.log = Logged(f, "Forward", ResolvedArgs(t, api, f.args))])
    /\ resolving' = [resolving EXCEPT ![t] = NotResolving]
    /\ UNCHANGED <<loader, unwrap_memory, locking,
                   call_scope, issued, trace, encoding_enabled, object_map_, next_capture_id,
                   wrappers, calls>>

NextResolve ==
    \E t \in Threads :
        \/ CallResolving(t)
        \/ PreCall(t)
        \/ FetchMemory(t)
        \/ Resolve(t)
        \/ ForwardResolved(t)
        \/ Encode(t)
        \/ PostCall(t)
        \/ ForwardNested(t)
        \/ Exit(t)
        \/ Return(t)

SpecResolve == Init /\ [][NextResolve]_vars

\* The entry points whose if branch hands the call to a capture-manager
\* Override: a free function, a method that returns a value and wraps
\* nothing, a method that resolves an argument and wraps its out parameter.
MaxOverrideCalls == 2  \* entry-point calls made in a run over the entry points with an Override

OverrideApis == {api \in EntryPoints : api.override}

NextOverride ==
    \E t \in Threads :
        \/ Call(t, FALSE, OverrideApis, MaxOverrideCalls)
        \/ PreCall(t)
        \/ Forward(t)
        \/ WrapOutput(t)
        \/ WrapConstruct(t)
        \/ Encode(t)
        \/ PostCall(t)
        \/ ForwardNested(t)
        \/ Exit(t)
        \/ Return(t)

SpecOverride == Init /\ [][NextOverride]_vars

\* Two threads creating factories under the identifier of the family's
\* root and of a derived interface, the application releasing what it was
\* handed.
MaxFamilyCalls == 2    \* entry-point calls made in a run over a family of wrapper types

FamilyApis == {CreateDXGIFactory2}

NextFamilies ==
    \/ \E t \in Threads :
        \/ Call(t, FALSE, FamilyApis, MaxFamilyCalls)
        \/ PreCall(t)
        \/ Forward(t)
        \/ WrapOutput(t)
        \/ WrapConstruct(t)
        \/ Encode(t)
        \/ PostCall(t)
        \/ ForwardNested(t)
        \/ Exit(t)
        \/ Return(t)
    \/ \E n \in DOMAIN wrappers : DestroyWrapper(wrappers[n].w)

SpecFamilies == Init /\ [][NextFamilies]_vars

(***************************************************************************)
(* What the claims speak of.                                               *)
(***************************************************************************)
\* The records a thread's calls have written, in write order.
RecordsOf(t) == SelectSeq(trace, LAMBDA r : r.thread = t)

\* The statements a call has run so far, and whether one of them is `step`.
Steps(f) == [i \in DOMAIN f.log |-> f.log[i].step]

Ran(f, step) == \E i \in DOMAIN f.log : f.log[i].step = step

IsPrefix(s, q) == Len(s) <= Len(q) /\ SubSeq(q, 1, Len(s)) = s

\* The outermost calls of a thread that have run their Encode_X call.
OutermostEncodes(t) ==
    issued[t] - (IF stack[t] # << >> /\ ~Ran(stack[t][1], "Encode") THEN 1 ELSE 0)

\* The thread's last record is the record of its outermost call in progress.
LastRecordIsOf(t, f) ==
    /\ RecordsOf(t) # << >>
    /\ LET r == RecordsOf(t)[Len(RecordsOf(t))] IN
       /\ r.api = f.api
       /\ r.result = f.real_result
       /\ r.object_id = (IF f.this = NULL THEN 0 ELSE f.this.id)

HooksAndEncode == {"PreCall", "WrapObject", "Encode", "PostCall"}

(***************************************************************************)
(* C1.  Reentrancy suppression.                                            *)
(***************************************************************************)
\* C1 as stated: every outermost call appends exactly one TraceRecord and
\* every nested call none, so a thread's records are as many as its
\* outermost calls that have passed their Encode_X call.
C1_OneRecordPerOutermostCall ==
    \A t \in Threads : Len(RecordsOf(t)) = OutermostEncodes(t)

\* C1 as amended: a nested call never appends a record and an outermost call
\* never more than one; while encoding is enabled every outermost call has
\* appended exactly one record by the end of its Encode_X call, and the one
\* record of a nested sequence is the record of its outermost call.
C1_ReentrancySuppression ==
    \A t \in Threads :
        /\ Len(RecordsOf(t)) <= OutermostEncodes(t)
        /\ encoding_enabled => Len(RecordsOf(t)) = OutermostEncodes(t)
        /\ (encoding_enabled /\ stack[t] # << >> /\ Ran(stack[t][1], "Encode"))
              => LastRecordIsOf(t, stack[t][1])

\* An outermost call with two further calls nested in it is about to
\* return, and the whole sequence has left one record: its own.
C1_Witness ==
    \E t \in Threads :
        /\ calls = 3 /\ issued[t] = 1 /\ \A u \in Threads \ {t} : issued[u] = 0
        /\ Len(stack[t]) = 1 /\ stack[t][1].pc = "Return"
        /\ Len(trace) = 1 /\ LastRecordIsOf(t, stack[t][1])

(***************************************************************************)
(* C2.  Hooks, wrapping and encoding only at depth 1.                      *)
(***************************************************************************)
\* C2: a call runs the pre-call hook, output wrapping, Encode_X or the
\* post-call hook only if its IncrementCallScope returned 1; a call that got
\* a greater value runs nothing but the forward, with the arguments as
\* supplied, and the decrement.
C2_HooksOnlyWhenOutermost ==
    \A t \in Threads : \A i \in DOMAIN stack[t] :
        LET f == stack[t][i] IN
        /\ (\E step \in HooksAndEncode : Ran(f, step)) => f.call_scope = 1
        /\ f.call_scope > 1 =>
              /\ IsPrefix(Steps(f), <<"IncrementCallScope", "Forward", "DecrementCallScope">>)
              /\ \A j \in DOMAIN f.log : f.log[j].step = "Forward" => f.log[j].args = f.supplied

\* A nested call is about to return having only forwarded and decremented,
\* inside an outermost call that ran its pre-call hook.
C2_Witness ==
    \E t \in Threads :
        /\ Len(stack[t]) = 2
        /\ Ran(stack[t][1], "PreCall")
        /\ stack[t][2].call_scope = 2
        /\ Steps(stack[t][2]) = <<"IncrementCallScope", "Forward", "DecrementCallScope">>

(***************************************************************************)
(* C3.  The call-scope counter counts the calls in progress.               *)
(***************************************************************************)
\* A call is in progress from its increment to its decrement.
InProgress(t) == {i \in DOMAIN stack[t] : stack[t][i].pc # "Return"}

\* C3: each thread's counter is >= 0 and equals the number of its calls in
\* progress; the i-th call on the stack got i from its increment, and a call
\* about to return leaves the counter at the value it had before the call.
C3_CounterCountsCallsInProgress ==
    \A t \in Threads :
        /\ call_scope[t] >= 0
        /\ call_scope[t] = Cardinality(InProgress(t))
        /\ \A i \in DOMAIN stack[t] :
              /\ stack[t][i].call_scope = i
              /\ stack[t][i].pc = "Return" => call_scope[t] = i - 1
        /\ stack[t] = << >> => call_scope[t] = 0

\* A call nested two deep has decremented and is about to return into the
\* two calls still in progress under it: the counter is back at 2.
C3_Witness ==
    \E t \in Threads :
        /\ Len(stack[t]) = 3 /\ stack[t][3].pc = "Return" /\ call_scope[t] = 2

(***************************************************************************)
(* C4.  One counter per thread.                                            *)
(***************************************************************************)
\* C4: a thread's counter is moved by that thread's calls only, so the
\* first call on a thread's stack is outermost (depth 1) whatever the other
\* threads are inside of: it takes the if branch and, by the time it
\* returns, has run both hooks, the forward with resolved arguments and
\* Encode_X.
C4_CountersArePerThread ==
    \A t \in Threads :
        /\ call_scope[t] <= Len(stack[t])
        /\ stack[t] # << >> =>
              LET f == stack[t][1] IN
              /\ f.call_scope = 1
              /\ f.pc # "ForwardNested"
              /\ f.pc = "Return" =>
                    /\ \A step \in {"PreCall", "Forward", "Encode", "PostCall"} : Ran(f, step)
                    /\ \A j \in DOMAIN f.log : f.log[j].step = "Forward" =>
                          f.log[j].args = ForwardArgs(ApiOf(f.api), f.supplied)

\* Thread t1 is inside a nested call while thread t2's call, entered as
\* outermost, has been hooked and encoded.
C4_Witness ==
    /\ Len(stack["t1"]) = 2 /\ stack["t1"][2].pc = "ForwardNested"
    /\ Len(stack["t2"]) = 1 /\ stack["t2"][1].call_scope = 1
    /\ Ran(stack["t2"][1], "PreCall") /\ Ran(stack["t2"][1], "Encode")

(***************************************************************************)
(* C5.  The order of the steps of an outermost call.                       *)
(***************************************************************************)
\* The WrapObject calls an outermost call makes: one per wrapped out
\* parameter when the real call has succeeded, none otherwise.
WrapCalls(f) ==
    IF ApiOf(f.api).wrap # << >> /\ f.real_result # NoResult /\ SUCCEEDED(f.real_result)
    THEN [i \in 1..Len(ApiOf(f.api).wrap) |-> "WrapObject"]
    ELSE << >>

StepsInOrder(f) ==
    <<"IncrementCallScope", "PreCall", "Forward">> \o WrapCalls(f)
        \o <<"Encode", "PostCall", "DecrementCallScope">>

\* C5: the steps an outermost call has run are an initial part of: enter,
\* pre-call hook, forward, wrap of each output (on success only), encode,
\* post-call hook, exit; a call about to return has run them all.
C5_StepOrder ==
    \A t \in Threads :
        stack[t] # << >> =>
            LET f == stack[t][1] IN
            /\ IsPrefix(Steps(f), StepsInOrder(f))
            /\ f.pc = "Return" => Steps(f) = StepsInOrder(f)

\* A successful D3D12SerializeRootSignature is about to return having
\* wrapped both of its outputs between the forward and the encode.
C5_Witness ==
    \E t \in Threads :
        /\ stack[t] # << >>
        /\ stack[t][1].api = "D3D12SerializeRootSignature"
        /\ stack[t][1].pc = "Return"
        /\ Len(WrapCalls(stack[t][1])) = 2
        /\ Steps(stack[t][1]) = StepsInOrder(stack[t][1])
(***************************************************************************)
(* C6.  Failure transparency.                                              *)
(***************************************************************************)
\* An outermost call whose real call has returned a failure status.
FailedOutermost(f) ==
    /\ f.call_scope = 1
    /\ f.real_result # NoResult
    /\ f.real_result.k = "hr"
    /\ ~SUCCEEDED(f.real_result)

OutParams(f) == LET api == ApiOf(f.api) IN {i \in DOMAIN f.args : api.params[i].kind = "out"}

InParams(f) == DOMAIN f.args \ OutParams(f)

C6_FailedCall ==
    \A t \in Threads :
        (stack[t] # << >> /\ FailedOutermost(stack[t][1])) =>
            LET f == stack[t][1] IN
            /\ ~Ran(f, "WrapObject")
            /\ \A i \in OutParams(f) : f.args[i].k # "wrap"
            /\ (encoding_enabled /\ Ran(f, "Encode")) =>
                  /\ Len(RecordsOf(t)) = issued[t]
                  /\ LastRecordIsOf(t, f)

\* A step of a failed outermost call itself (not of a call nested in it).
C6_FailedCallStep ==
    \A t \in Threads :
        (Len(stack[t]) = 1 /\ FailedOutermost(stack[t][1]) /\ stack'[t] # stack[t]) =>
            /\ object_map_' = object_map_
            /\ next_capture_id' = next_capture_id

\* C6: an outermost call whose real call failed runs no WrapObject, hands
\* back no wrapper, adds no ObjectMap entry and allocates no CaptureId in
\* any of its steps, and while encoding is enabled its Encode_X call has
\* appended its one record, carrying the failure status.
C6_FailureTransparency == []C6_FailedCall /\ [][C6_FailedCallStep]_vars

\* A failed D3D12SerializeRootSignature is about to return: the real call
\* left an error blob, nothing was wrapped, and the record carries the failure.
C6_Witness ==
    \E t \in Threads :
        /\ Len(stack[t]) = 1
        /\ FailedOutermost(stack[t][1])
        /\ stack[t][1].pc = "Return"
        /\ \E i \in OutParams(stack[t][1]) : stack[t][1].args[i].k = "real"
        /\ encoding_enabled
        /\ LastRecordIsOf(t, stack[t][1])
        /\ ~SUCCEEDED(RecordsOf(t)[Len(RecordsOf(t))].result)

HoldsUnwrapped(f, i) ==
    /\ f.args[i].k = "real"
    /\ OutIid(ApiOf(f.api), f.args, i) \in WrapperTypes

\* The out parameter holds the registered wrapper of the object returned.
HoldsRegisteredWrapper(f, i) ==
    /\ f.args[i].k = "wrap"
    /\ f.args[i].t = OutIid(ApiOf(f.api), f.args, i)
    /\ FindMapEntry(f.args[i].o, object_map_[f.args[i].t]) = f.args[i]

\* C8 as stated: when any call is about to return, none of its out
\* parameters holds a real reference of a supported interface.
C8_NoUnwrappedOutput ==
    \A t \in Threads : \A i \in DOMAIN stack[t] :
        stack[t][i].pc = "Return" =>
            \A j \in OutParams(stack[t][i]) : ~HoldsUnwrapped(stack[t][i], j)

\* The out parameter holds a live wrapper of the interface asked for.
HoldsWrapper(f, i) ==
    /\ f.args[i].k = "wrap"
    /\ f.args[i].t = OutIid(ApiOf(f.api), f.args, i)
    /\ f.args[i] \in AllLiveWrappers

\* C8 as amended: when an outermost call whose real call succeeded is about
\* to return, every non-null out parameter of a supported interface holds
\* a live wrapper of that interface.
C8_OutputsWrappedOnSuccess ==
    \A t \in Threads :
        (stack[t] # << >> /\ stack[t][1].pc = "Return" /\ stack[t][1].real_result.k = "hr"
           /\ SUCCEEDED(stack[t][1].real_result)) =>
            \A j \in OutParams(stack[t][1]) :
                LET f == stack[t][1] IN
                /\ ~HoldsUnwrapped(f, j)
                /\ (f.args[j] # NULL /\ OutIid(ApiOf(f.api), f.args, j) \in WrapperTypes)
                      => HoldsWrapper(f, j)

\* A successful D3D12SerializeRootSignature is about to return with both
\* blobs wrapped, the second one under the CaptureId of the first.
C8_Witness ==
    \E t \in Threads :
        /\ stack[t] # << >>
        /\ stack[t][1].api = "D3D12SerializeRootSignature"
        /\ stack[t][1].pc = "Return"
        /\ SUCCEEDED(stack[t][1].real_result)
        /\ \A j \in OutParams(stack[t][1]) : HoldsRegisteredWrapper(stack[t][1], j)

(***************************************************************************)
(* C9.  The real implementation is handed real references.                 *)
(***************************************************************************)
\* A wrapper reference is reachable from the i-th argument: the argument
\* itself, an element of the array, an object field of the structure.
ContainsWrapper(api, args, i) ==
    LET v == args[i]
        kind == api.params[i].kind
    IN  CASE kind = "obj"    -> v.k = "wrap"
          [] kind = "array"  -> v # NULL /\ \E e \in Range(v.elems) : e.k = "wrap"
          [] kind = "struct" -> v # NULL /\ \E fld \in RefFields \cap DOMAIN v : v[fld].k = "wrap"
          [] OTHER           -> FALSE

\* The forward of the call handed the real implementation a wrapper.
ForwardedWrapper(f) ==
    LET api == ApiOf(f.api) IN
    \E j \in DOMAIN f.log :
        /\ f.log[j].step = "Forward"
        /\ \E i \in DOMAIN f.log[j].args : ContainsWrapper(api, f.log[j].args, i)

C10_CallerArgumentsUnchanged ==
    \A t \in Threads :
        stack[t] # << >> =>
            LET f == stack[t][1]
                api == ApiOf(f.api)
                ins == InParams(f)
            IN  /\ \A j \in DOMAIN f.log :
                      /\ f.log[j].step \in {"PreCall", "Encode", "PostCall"}
                            => \A i \in ins : f.log[j].args[i] = f.supplied[i]
                      /\ f.log[j].step = "Forward"
                            => \A i \in ins : ContainsWrapper(api, f.supplied, i)
                                                 => f.log[j].args[i] # f.supplied[i]
                /\ \A i \in ins : f.args[i] = f.supplied[i]

\* An outermost CopyTextureRegion given structures naming wrappers is
\* about to return: the real call got copies naming the real objects,
\* Encode_X and the post-call hook got the caller's structures.
C10_Witness ==
    \E t \in Threads :
        /\ stack[t] # << >>
        /\ stack[t][1].api = "ID3D12GraphicsCommandList_CopyTextureRegion"
        /\ stack[t][1].pc = "Return"
        /\ ContainsWrapper(ApiOf(stack[t][1].api), stack[t][1].supplied, 1)
        /\ \E j \in DOMAIN stack[t][1].log :
              /\ stack[t][1].log[j].step = "Forward"
              /\ stack[t][1].log[j].args[1].pResource = Real(stack[t][1].supplied[1].pResource.o)
        /\ \E j \in DOMAIN stack[t][1].log :
              /\ stack[t][1].log[j].step = "Encode"
              /\ stack[t][1].log[j].args = stack[t][1].supplied
(***************************************************************************)
(* C11.  Identity stability.                                               *)
(***************************************************************************)
\* C11: the wrappers alive for one real object carry one CaptureId, and
\* under one interface type there is one of them: a repeated Wrap of the
\* object under the type has returned the wrapper the first one returned.
C11_IdentityStability ==
    \A w1 \in AllLiveWrappers : \A w2 \in AllLiveWrappers :
        w1.o = w2.o => (w1.id = w2.id /\ (w1.t = w2.t => w1 = w2))

(***************************************************************************)
(* C12.  Round trip.                                                       *)
(***************************************************************************)
\* The WrapObject calls a call has made so far, each with the riid and the
\* pointer it was given, and how many of them have returned.
WrapLog(f) == SelectSeq(f.log, LAMBDA e : e.step = "WrapObject")

WrapsDone(f) == f.wrap_i - 1

\* What the k-th WrapObject call of the call left in its out parameter.
WrapResult(f, k) == f.args[ApiOf(f.api).wrap[k].out]

\* C12: whenever WrapObject has wrapped a real reference under a supported
\* interface, what it left in the out parameter is a wrapper of that
\* interface and GetWrappedObject of it is the real reference again.
C12_RoundTrip ==
    \A t \in Threads : \A i \in DOMAIN stack[t] :
        LET f == stack[t][i] IN
        \A k \in DOMAIN WrapLog(f) :
            (k <= WrapsDone(f) /\ WrapObject(WrapLog(f)[k].args[1], WrapLog(f)[k].args[2])) =>
                /\ WrapResult(f, k).k = "wrap"
                /\ WrapResult(f, k).t = WrapLog(f)[k].args[1]
                /\ GetWrappedObject(WrapResult(f, k)) = WrapLog(f)[k].args[2]

\* A GetParent has wrapped the new factory 201 in a wrapper constructed for
\* it, and unwrapping that wrapper gives 201 back.
C12_Witness ==
    \E t \in Threads :
        /\ stack[t] # << >>
        /\ stack[t][1].api = "IDXGIObject_GetParent"
        /\ WrapsDone(stack[t][1]) = 1
        /\ WrapLog(stack[t][1])[1].args[2] = Real(201)
        /\ WrapResult(stack[t][1], 1).k = "wrap"
        /\ WrapResult(stack[t][1], 1).n > Cardinality(InitialWrappers)
        /\ GetWrappedObject(WrapResult(stack[t][1], 1)) = Real(201)

(***************************************************************************)
(* C13.  Concurrent wraps of one new object.                               *)
(***************************************************************************)
\* The call's k-th WrapObject call has returned and was given the real
\* object o to wrap under the supported interface riid.
HasWrapped(f, k, riid, o) ==
    /\ k \in DOMAIN WrapLog(f)
    /\ k <= WrapsDone(f)
    /\ WrapLog(f)[k].args = <<riid, Real(o)>>
    /\ riid \in WrapperTypes

\* C13: when calls in progress on two threads have both wrapped the same
\* real object under the same interface, the object has an ObjectMap entry,
\* both hold the wrapper of that entry, and no other wrapper of the object
\* under the interface is alive.
C13_ConcurrentWrapSafety ==
    \A t1 \in Threads : \A t2 \in Threads \ {t1} :
        \A i1 \in DOMAIN stack[t1] : \A i2 \in DOMAIN stack[t2] :
            \A k1 \in DOMAIN WrapLog(stack[t1][i1]) : \A k2 \in DOMAIN WrapLog(stack[t2][i2]) :
                \A riid \in WrapperTypes : \A o \in DOMAIN object_map_[riid] \cup {w.o : w \in AllLiveWrappers} :
                    (HasWrapped(stack[t1][i1], k1, riid, o) /\ HasWrapped(stack[t2][i2], k2, riid, o)) =>
                        /\ GetExistingWrapper(riid, o) # NULL
                        /\ WrapResult(stack[t1][i1], k1) = GetExistingWrapper(riid, o)
                        /\ WrapResult(stack[t2][i2], k2) = GetExistingWrapper(riid, o)
                        /\ \A w \in LiveWrappers(riid) : w.o = o => w = GetExistingWrapper(riid, o)

(***************************************************************************)
(* C14.  The entries of the object maps.                                   *)
(***************************************************************************)
\* The wrappers that have been destroyed.
DeadWrappers == {wrappers[n].w : n \in {m \in DOMAIN wrappers : ~wrappers[m].alive}}

\* C14: every entry of every object map holds a live wrapper of the map's
\* interface under the real object that wrapper forwards to, so a real
\* object has at most one live registered wrapper per interface.
C14_EntriesAreLiveAndKeyed ==
    \A t \in WrapperTypes : \A o \in DOMAIN object_map_[t] :
        /\ object_map_[t][o].t = t
        /\ object_map_[t][o].o = o
        /\ object_map_[t][o] \in AllLiveWrappers
        /\ Cardinality({w \in Range(object_map_[t]) : w.o = o}) = 1

\* Factory 201 was wrapped, its wrapper destroyed, and wrapped again: the
\* map holds the second, live wrapper under 201.
C14_Witness ==
    /\ 201 \in DOMAIN object_map_["IDXGIFactory"]
    /\ object_map_["IDXGIFactory"][201] \in AllLiveWrappers
    /\ \E w \in DeadWrappers : w.o = 201 /\ w.n < object_map_["IDXGIFactory"][201].n

(***************************************************************************)
(* C15.  An entry exists exactly while a wrapper is alive.                 *)
(***************************************************************************)
\* C15: under every interface, the real objects that have an ObjectMap
\* entry are the real objects a live wrapper of the interface forwards to:
\* the entry is there from the wrapper's construction on and is gone, a
\* lookup finding nothing, once the wrapper is destroyed.
C15_EntryExactlyWhileAlive ==
    \A t \in WrapperTypes :
        DOMAIN object_map_[t] = {w.o : w \in LiveWrappers(t)}

(***************************************************************************)
(* C16.  CaptureIds.                                                       *)
(***************************************************************************)
\* The n-th wrapper constructed was given a CaptureId no wrapper
\* constructed before it carries.
NewlyAssigned(n) == \A m \in 1..(n - 1) : wrappers[m].w.id # wrappers[n].w.id

\* C16: over all wrappers ever constructed, alive or destroyed, wrappers of
\* distinct real objects carry distinct CaptureIds, a newly assigned
\* CaptureId is greater than every one carried before, and every id
\* handed out is below the next one to hand out.
C16_CaptureIdsUniqueAndIncreasing ==
    \A n \in DOMAIN wrappers :
        /\ wrappers[n].w.id < next_capture_id
        /\ \A m \in DOMAIN wrappers :
              wrappers[m].w.o # wrappers[n].w.o => wrappers[m].w.id # wrappers[n].w.id
        /\ NewlyAssigned(n) => \A m \in 1..(n - 1) : wrappers[m].w.id < wrappers[n].w.id

\* The wrapper of factory 201 has been destroyed and pipeline state 203,
\* wrapped after that, carries a greater CaptureId.
C16_Witness ==
    \E m \in DOMAIN wrappers : \E n \in DOMAIN wrappers :
        /\ m < n
        /\ ~wrappers[m].alive
        /\ wrappers[m].w.o = 201
        /\ wrappers[n].alive
        /\ wrappers[n].w.o = 203
        /\ \A k \in DOMAIN wrappers : wrappers[k].w.o = 201 => ~wrappers[k].alive
        /\ wrappers[m].w.id < wrappers[n].w.id

(***************************************************************************)
(* C17.  When a wrapper is created.                                        *)
(***************************************************************************)
\* A null reference handed to WrapObject is still null when it returns.
C17_NullStaysNull ==
    \A t \in Threads : \A i \in DOMAIN stack[t] :
        \A k \in DOMAIN WrapLog(stack[t][i]) :
            (k <= WrapsDone(stack[t][i]) /\ WrapLog(stack[t][i])[k].args[2] = NULL) =>
                WrapResult(stack[t][i], k) = NULL

\* A step that constructs a wrapper, adds an ObjectMap entry or allocates
\* a CaptureId is the WrapObject call of a call whose real call succeeded,
\* on a non-null real reference; it constructs one wrapper, for that
\* object, and allocates one CaptureId if the object has none and no
\* CaptureId otherwise.
C17_CreationStep ==
    (\/ Len(wrappers') > Len(wrappers)
     \/ next_capture_id' # next_capture_id
     \/ \E ty \in WrapperTypes : ~(DOMAIN object_map_'[ty] \subseteq DOMAIN object_map_[ty])) =>
        \E t \in Threads :
            /\ stack[t] # << >>
            /\ stack'[t] # stack[t]
            /\ Top(t).pc = "WrapConstruct"
            /\ Top(t).real_result.k = "hr"
            /\ SUCCEEDED(Top(t).real_result)
            /\ Top(t).args[WrapCall(Top(t)).out].k = "real"
            /\ Len(wrappers') = Len(wrappers) + 1
            /\ wrappers'[Len(wrappers')].w.o = Top(t).args[WrapCall(Top(t)).out].o
            /\ next_capture_id' = IF CaptureIdOf(Top(t).args[WrapCall(Top(t)).out].o) = 0
                                  THEN next_capture_id + 1 ELSE next_capture_id

\* C17: wrappers, ObjectMap entries and CaptureIds come into being only in
\* the wrap of a non-null output of a successful call, one wrapper at a
\* time and one new CaptureId for an object that had none; a null output
\* of a successful call is returned as null.
C17_WrapperCreation == []C17_NullStaysNull /\ [][C17_CreationStep]_vars

\* A successful D3D12SerializeRootSignature is about to return: its blob
\* was wrapped in the one wrapper constructed, under the one CaptureId
\* allocated, and its null error blob is still null.
C17_Witness ==
    \E t \in Threads :
        /\ Len(stack[t]) = 1
        /\ stack[t][1].api = "D3D12SerializeRootSignature"
        /\ stack[t][1].pc = "Return"
        /\ SUCCEEDED(stack[t][1].real_result)
        /\ stack[t][1].args[2] = NULL
        /\ stack[t][1].args[1].k = "wrap"
        /\ stack[t][1].args[1].id = Cardinality(InitialWrappers) + 1
        /\ next_capture_id = Cardinality(InitialWrappers) + 2
        /\ Len(wrappers) = Cardinality(InitialWrappers) + 1

(***************************************************************************)
(* C18.  An interface the layer has no wrapper type for.                   *)
(***************************************************************************)
\* The interface the k-th WrapObject call's out parameter was requested
\* under, and whether it is one without a wrapper type.
RequestedIid(f, k) == OutIid(ApiOf(f.api), f.supplied, ApiOf(f.api).wrap[k].out)

Unsupported(f, k) == RequestedIid(f, k) \notin WrapperTypes

\* After a successful real call that returned an object of an unsupported
\* interface: the out parameter holds the real reference the real call
\* wrote, no wrapper was or is being constructed for the object, and the
\* call is about to return the success status.
C18_RawReferenceReturned ==
    \A t \in Threads : \A i \in DOMAIN stack[t] :
        LET f == stack[t][i] IN
        \A k \in DOMAIN WrapLog(f) :
            Unsupported(f, k) =>
                /\ f.pc # "WrapConstruct"
                /\ WrapResult(f, k) = WrapLog(f)[k].args[2]
                /\ WrapResult(f, k).k # "wrap"
                /\ \A w \in AllLiveWrappers \cup DeadWrappers : Real(w.o) # WrapResult(f, k)
                /\ \A ty \in WrapperTypes : \A o \in DOMAIN object_map_[ty] :
                      Real(o) # WrapResult(f, k)
                /\ f.pc = "Return" => (SUCCEEDED(f.real_result) /\ ReturnValue(f) = f.real_result)

\* The WrapObject call on an object of an unsupported interface constructs
\* no wrapper, adds no ObjectMap entry and allocates no CaptureId.
C18_NothingCreated ==
    \A t \in Threads :
        (/\ stack[t] # << >>
         /\ stack'[t] # stack[t]
         /\ Top(t).pc = "WrapObject"
         /\ Unsupported(Top(t), Top(t).wrap_i)) =>
            /\ wrappers' = wrappers
            /\ object_map_' = object_map_
            /\ next_capture_id' = next_capture_id

\* Every call that is intercepted is a free function or a method of a
\* wrapper, and so is the object of every record: a call on a raw
\* reference does not pass through an entry point and writes no record.
C18_OnlyWrappersIntercepted ==
    /\ \A t \in Threads : \A i \in DOMAIN stack[t] :
          stack[t][i].this = NULL \/ stack[t][i].this.k = "wrap"
    /\ \A r \in DOMAIN trace :
          trace[r].object_id = 0
             \/ \E w \in AllLiveWrappers \cup DeadWrappers : w.id = trace[r].object_id

\* C18: a successful call that returns an object of an interface without a
\* wrapper type returns the success status and the raw real reference,
\* constructs no wrapper, adds no ObjectMap entry, allocates no CaptureId,
\* and no record is ever written for a call on a raw reference.
C18_UnsupportedInterface ==
    /\ [](C18_RawReferenceReturned /\ C18_OnlyWrappersIntercepted)
    /\ [][C18_NothingCreated]_vars

\* CreateDXGIFactory, asked for an unsupported interface, is about to
\* return success with the raw factory 205; its record was written, and no
\* wrapper or CaptureId has been created.
C18_Witness ==
    \E t \in Threads :
        /\ Len(stack[t]) = 1
        /\ stack[t][1].api = "CreateDXGIFactory"
        /\ stack[t][1].pc = "Return"
        /\ SUCCEEDED(stack[t][1].real_result)
        /\ stack[t][1].supplied[1] = "IID_Unsupported"
        /\ stack[t][1].args[2] = Real(205)
        /\ LastRecordIsOf(t, stack[t][1])
        /\ Len(wrappers) = Cardinality(InitialWrappers)
        /\ next_capture_id = Cardinality(InitialWrappers) + 1

(***************************************************************************)
(* C19.  A trace sink that fails.                                          *)
(***************************************************************************)
\* Once encoding is off it stays off and the trace grows no more; the step
\* that turns it off writes no record either.
C19_NoFurtherRecord ==
    /\ ~encoding_enabled => (~encoding_enabled' /\ trace' = trace)
    /\ ~encoding_enabled' => trace' = trace

\* With encoding off, a call about to return has forwarded to the real
\* implementation and returns its result, and an outermost one whose real
\* call succeeded hands back no unwrapped object of a supported interface.
C19_CallsUnaffected ==
    ~encoding_enabled =>
        \A t \in Threads : \A i \in DOMAIN stack[t] :
            LET f == stack[t][i] IN
            f.pc = "Return" =>
                /\ Ran(f, "Forward") \/ Ran(f, "ForwardNested")
                /\ f.real_result # NoResult
                /\ ReturnValue(f) = f.real_result
                /\ (i = 1 /\ f.real_result.k = "hr" /\ SUCCEEDED(f.real_result)) =>
                      \A j \in OutParams(f) :
                          (f.args[j] # NULL /\ OutIid(ApiOf(f.api), f.args, j) \in WrapperTypes)
                              => HoldsWrapper(f, j)

\* C19: after the sink has refused a record no record is written any more,
\* and calls go on forwarding, wrapping their outputs and returning the
\* real implementation's result.
C19_SinkFailure == []C19_CallsUnaffected /\ [][C19_NoFurtherRecord]_vars

\* The sink refused the record of a thread's first call; its second call, a
\* GetParent, ran with encoding off, got the new factory 201 wrapped and
\* is about to return the real result, and the trace is still empty.
C19_Witness ==
    \E t \in Threads :
        /\ ~encoding_enabled
        /\ trace = << >>
        /\ issued[t] = 2
        /\ Len(stack[t]) = 1
        /\ stack[t][1].api = "IDXGIObject_GetParent"
        /\ stack[t][1].pc = "Return"
        /\ Ran(stack[t][1], "Encode")
        /\ SUCCEEDED(stack[t][1].real_result)
        /\ stack[t][1].args[2].k = "wrap"
        /\ stack[t][1].args[2].o = 201

(***************************************************************************)
(* C20.  The order of a thread's records.                                  *)
(***************************************************************************)
\* The records of a thread stand in the trace in the order the thread
\* issued their calls.
C20_InIssueOrder ==
    \A t \in Threads :
        \A i \in DOMAIN RecordsOf(t) : \A j \in DOMAIN RecordsOf(t) :
            i < j => RecordsOf(t)[i].call < RecordsOf(t)[j].call

\* A step leaves the trace as it is or puts one whole record behind it:
\* the record of the call whose Encode_X call the step is.
C20_WholeRecordAppended ==
    \/ trace' = trace
    \/ \E t \in Threads :
          /\ stack[t] # << >>
          /\ Top(t).pc = "Encode"
          /\ stack'[t] # stack[t]
          /\ trace' = Append(trace, TraceRecord(t, Top(t)))

\* C20: in every interleaving the records of each thread are in the trace
\* in the order the thread issued the calls, and the trace only ever grows
\* by one whole record of one call at its end.
C20_PerThreadTraceOrder == []C20_InIssueOrder /\ [][C20_WholeRecordAppended]_vars

\* The record of another thread's call stands between the records of a
\* thread's first and second call.
C20_Witness ==
    \E t \in Threads : \E u \in Threads \ {t} :
        /\ Len(trace) = 3
        /\ trace[1].thread = t /\ trace[1].call = 1
        /\ trace[2].thread = u /\ trace[2].call = 1
        /\ trace[3].thread = t /\ trace[3].call = 2

(***************************************************************************)
(* C25.  encode::GetWrappedObject on one reference.                        *)
(***************************************************************************)
\* The argument lists an outermost call has handed the real implementation.
Forwards(f) == {f.log[j].args : j \in {k \in DOMAIN f.log : f.log[k].step = "Forward"}}

\* The parameters that are one object reference.
UnwrapOneParams(api) == {i \in DOMAIN api.params : api.params[i].kind = "obj"}

\* What the real implementation was given for such a parameter is the
\* real object of the wrapper supplied, or the very reference supplied
\* when that is null or a raw real reference.
C25_RealOrUnchanged ==
    \A t \in Threads :
        stack[t] # << >> =>
            LET f == stack[t][1] IN
            \A args \in Forwards(f) : \A i \in UnwrapOneParams(ApiOf(f.api)) :
                /\ f.supplied[i].k = "wrap" => args[i] = Real(f.supplied[i].o)
                /\ f.supplied[i].k # "wrap" => args[i] = f.supplied[i]

\* The step that resolves and forwards leaves every ObjectMap and every
\* wrapper as it found them.
C25_MapsUntouched ==
    \A t \in Threads :
        (/\ stack[t] # << >>
         /\ Top(t).pc = "Forward"
         /\ stack'[t] # stack[t]) => (object_map_' = object_map_ /\ wrappers' = wrappers)

\* C25: GetWrappedObject yields the real reference of a wrapped reference
\* and gives back a null or raw reference as it got it, for every input,
\* and it neither adds nor removes an ObjectMap entry.
C25_UnwrapOne == []C25_RealOrUnchanged /\ [][C25_MapsUntouched]_vars

\* An outermost CopyResource given a wrapper and a raw reference is about
\* to return: the real call got the wrapper's real object and the raw
\* reference itself.
C25_Witness ==
    \E t \in Threads :
        /\ stack[t] # << >>
        /\ stack[t][1].api = "ID3D12GraphicsCommandList_CopyResource"
        /\ stack[t][1].pc = "Return"
        /\ stack[t][1].supplied[1].k = "wrap"
        /\ stack[t][1].supplied[2] = RawObject
        /\ \E args \in Forwards(stack[t][1]) :
              args = <<Real(stack[t][1].supplied[1].o), RawObject>>

(***************************************************************************)
(* C26.  Resolving arrays and structures.                                  *)
(***************************************************************************)
\* The copy of a structure: the same fields, each object field naming a
\* wrapper now naming its real object, every other field as supplied.
ResolvedStruct(supplied, copy) ==
    IF supplied = NULL
    THEN copy = NULL
    ELSE /\ copy # NULL
         /\ DOMAIN copy = DOMAIN supplied
         /\ \A fld \in DOMAIN supplied :
               copy[fld] = (IF fld \in RefFields /\ supplied[fld].k = "wrap"
                            THEN Real(supplied[fld].o) ELSE supplied[fld])

\* The copy of an array of count references: null for a null array or a
\* zero count; otherwise count elements, the one at each position the real
\* object of the wrapper at that position or the reference supplied there.
ResolvedArray(supplied, count, copy) ==
    IF supplied = NULL \/ count = 0
    THEN copy = NULL
    ELSE /\ copy # NULL
         /\ Len(copy.elems) = count
         /\ \A p \in 1..count :
               copy.elems[p] = (IF supplied.elems[p].k = "wrap"
                                THEN Real(supplied.elems[p].o) ELSE supplied.elems[p])

C28_LiveEntriesKept ==
    \A t \in WrapperTypes : \A o \in DOMAIN object_map_[t] :
        (\E n \in DOMAIN wrappers : wrappers[n].w = object_map_[t][o] /\ wrappers'[n].alive)
            => (o \in DOMAIN object_map_'[t] /\ object_map_'[t][o] = object_map_[t][o])

\* C28: the destruction of a wrapper removes no entry but that wrapper's
\* own: the entry of another live wrapper registered under the same real
\* object, such as the winner of a wrap race whose losing contender is
\* discarded, is there after it.
C28_OnlyOwnEntryRemoved == [][C28_LiveEntriesKept]_vars

(***************************************************************************)
(* C30.  Calls made from inside the interception work.                     *)
(***************************************************************************)
\* The calls in progress that were made from a hook point of an outermost
\* call: the frame above one of depth 1 that stands at such a point.
MadeFromHook(t) ==
    {i \in 2..Len(stack[t]) : stack[t][i - 1].call_scope = 1 /\ stack[t][i - 1].pc \in HookPoints}

\* Such a call saw depth 2 or more, has run nothing but the forward of the
\* supplied arguments and the decrement, and holds no wrapper in an out
\* parameter.
C30_ForwardedDirectly ==
    \A t \in Threads : \A i \in MadeFromHook(t) :
        LET f == stack[t][i] IN
        /\ f.call_scope >= 2
        /\ \A j \in DOMAIN f.log :
              /\ f.log[j].step \in {"IncrementCallScope", "Forward", "DecrementCallScope"}
              /\ f.log[j].step = "Forward" => f.log[j].args = f.supplied
        /\ \A j \in OutParams(f) : f.args[j].k # "wrap"

\* A step that writes a record, constructs or destroys a wrapper or
\* changes an ObjectMap is a step of a call with no call below it.
C30_WorkOfOutermostOnly ==
    (trace' # trace \/ wrappers' # wrappers \/ object_map_' # object_map_)
        => \E t \in Threads : Len(stack[t]) = 1 /\ stack'[t] # stack[t]

\* C30: an entry point called on the same thread from the pre-call hook,
\* the Override, WrapObject, Encode_X or the post-call hook of an outermost
\* call sees depth 2 or more: it is forwarded as supplied, writes no
\* TraceRecord and wraps nothing.
C30_HooksInsideCallScope == []C30_ForwardedDirectly /\ [][C30_WorkOfOutermostOnly]_vars

\* A GetParent called from the post-call hook of an outermost call is
\* about to return the factory the driver gave it, unwrapped, the trace
\* holding the outer call's record alone.
C30_Witness ==
    \E t \in Threads : \E i \in MadeFromHook(t) :
        /\ stack[t][i - 1].pc = "PostCall"
        /\ stack[t][i].api = "IDXGIObject_GetParent"
        /\ stack[t][i].pc = "Return"
        /\ SUCCEEDED(stack[t][i].real_result)
        /\ stack[t][i].args[2].k = "real"
        /\ Len(trace) = 1

(***************************************************************************)
(* C27.  The dispatch table.                                               *)
(***************************************************************************)
\* Every entry of the table is the real entry point resolved for it.
C27_TableAsResolved ==
    dispatch_table = [name \in FreeFunctions |-> RealFunction(name)]

\* C27: the dispatch table is as it was resolved at every moment, and no
\* step of any call, outermost or nested, on any thread, changes an entry
\* of it: the free functions call through it and write nothing.
C27_DispatchTableReadOnly == []C27_TableAsResolved /\ [][dispatch_table' = dispatch_table]_vars

\* A CreateDXGIFactory called from inside the real implementation of an
\* outermost D3D12SerializeRootSignature has gone through the table on the
\* nested path and is about to return.
C27_Witness ==
    \E t \in Threads :
        /\ Len(stack[t]) = 2
        /\ stack[t][1].api = "D3D12SerializeRootSignature"
        /\ stack[t][2].api = "CreateDXGIFactory"
        /\ stack[t][2].pc = "Return"
        /\ dispatch_table["CreateDXGIFactory"] = RealFunction("CreateDXGIFactory")

(***************************************************************************)
(* C23.  The life of the copies in scratch memory.                         *)
(***************************************************************************)
\* The outermost call of the thread has called the real implementation.
Forwarded(t) == stack[t] # << >> /\ Ran(stack[t][1], "Forward")

\* The arguments the outermost call of the thread forwarded.
ForwardedArgs(t) == CHOOSE args \in Forwards(stack[t][1]) : TRUE

C23_FetchedMemoryIsFresh ==
    \A t \in Threads :
        (Forwarded(t) /\ UsesUnwrapMemory(ApiOf(stack[t][1].api))) =>
            /\ \A k \in DOMAIN unwrap_memory[t] :
                  /\ unwrap_memory[t][k].thread = t
                  /\ unwrap_memory[t][k].call = issued[t]
                  /\ unwrap_memory[t][k].copy = ForwardedArgs(t)[unwrap_memory[t][k].param]
            /\ \A i \in DOMAIN ForwardedArgs(t) :
                  (/\ ApiOf(stack[t][1].api).params[i].kind \in {"array", "struct"}
                   /\ ForwardedArgs(t)[i] # NULL)
                      => \E k \in DOMAIN unwrap_memory[t] : unwrap_memory[t][k].param = i

\* What an outermost call whose body does not fetch the scratch memory
\* forwards is no copy from it: it is what the caller supplied, a wrapper
\* replaced by its real object.
C23_NothingReadOtherwise ==
    \A t \in Threads :
        (Forwarded(t) /\ ~UsesUnwrapMemory(ApiOf(stack[t][1].api))) =>
            \A i \in DOMAIN ForwardedArgs(t) :
                ForwardedArgs(t)[i] = GetWrappedObject(stack[t][1].supplied[i])

\* A thread's scratch memory holds copies of its own calls only.
C23_OwnCopiesOnly ==
    \A t \in Threads : \A k \in DOMAIN unwrap_memory[t] :
        unwrap_memory[t][k].thread = t /\ unwrap_memory[t][k].call <= issued[t]

\* A thread's scratch memory changes in the forward of an outermost call
\* of that thread and in no other step.
C23_ChangedByOwnForwardOnly ==
    \A t \in Threads :
        unwrap_memory'[t] # unwrap_memory[t] =>
            /\ Len(stack[t]) = 1
            /\ Top(t).pc = "Forward"
            /\ stack'[t] # stack[t]

ArrayParams(api) == {i \in DOMAIN api.params : api.params[i].kind = "array"}

\* C24: an outermost call given a null array or a count of zero forwards
\* null for the array and has built no copy of it in scratch memory, and
\* every outermost call forwards the count it was given.
C24_NullOrEmptyArray ==
    \A t \in Threads :
        Forwarded(t) =>
            LET f == stack[t][1]
                api == ApiOf(f.api)
                c == ParamIndex(api, "count")
            IN  \A i \in ArrayParams(api) :
                   /\ ForwardedArgs(t)[c] = f.supplied[c]
                   /\ (f.supplied[i] = NULL \/ f.supplied[c] = 0) =>
                         /\ ForwardedArgs(t)[i] = NULL
                         /\ \A k \in DOMAIN unwrap_memory[t] : unwrap_memory[t][k].param # i

\* An outermost QueryResourceResidency given an array and the count zero
\* has forwarded null and zero, the thread's scratch memory empty although
\* its previous call had left a copy there.
C24_Witness ==
    \E t \in Threads :
        /\ Forwarded(t)
        /\ stack[t][1].api = "IDXGIDevice_QueryResourceResidency"
        /\ stack[t][1].supplied[1] # NULL
        /\ stack[t][1].supplied[2] = 0
        /\ ForwardedArgs(t) = <<NULL, 0>>
        /\ unwrap_memory[t] = << >>
        /\ issued[t] = 2
        /\ \E r \in DOMAIN trace : trace[r].api = "ID3D12CommandQueue_ExecuteCommandLists"
                                    /\ trace[r].args[1] > 0 /\ trace[r].args[2] # NULL

(***************************************************************************)
(* C21.  The order of the locks.                                           *)
(***************************************************************************)
\* The ObjectMap mutexes a thread holds.
HeldBy(t) == {ty \in WrapperTypes : object_map_lock_[ty] = t}

\* The thread stands at Encode_X or behind it in the body.
AtOrPastEncode(t) ==
    /\ stack[t] # << >>
    /\ Top(t).pc \in {"Encode", "PostCall", "DecrementCallScope", "Return"}

\* C21: a thread holds at most one ObjectMap mutex; while it holds one it
\* neither holds the sink's mutex nor stands at Encode_X, waiting for the
\* sink or writing to it; and it holds none from Encode_X on.
C21_LockOrdering ==
    \A t \in Threads :
        /\ Cardinality(HeldBy(t)) <= 1
        /\ HeldBy(t) # {} => (sink_lock # t /\ ~AtOrPastEncode(t))
        /\ sink_lock = t => (HeldBy(t) = {} /\ stack[t] # << >> /\ Top(t).pc = "Encode")

\* A thread that has wrapped an output holds the sink's mutex, writing its
\* record, while the other thread holds the mutex of a map.
C21_Witness ==
    \E t \in Threads : \E u \in Threads \ {t} :
        /\ sink_lock = t
        /\ Ran(Top(t), "WrapObject")
        /\ Top(t).args[WrapCall([Top(t) EXCEPT !.wrap_i = 1]).out].k = "wrap"
        /\ HeldBy(u) # {}

(***************************************************************************)
(* C22.  Every call returns.                                               *)
(***************************************************************************)
\* The thread is in a call or in a destructor.
Busy(t) == stack[t] # << >> \/ destroying[t] # NULL

\* While a thread is busy, some busy thread can take its next step.
C22_SomeThreadCanStep ==
    (\E t \in Threads : Busy(t)) => \E t \in Threads : Busy(t) /\ ENABLED Progress(t)

\* C22: the real implementation returning and the sink write completing,
\* no state is reached in which the busy threads all wait, and every
\* thread that is in a call or a destructor comes out of it.
C22_EveryCallReturns ==
    /\ []C22_SomeThreadCanStep
    /\ \A t \in Threads : Busy(t) ~> ~Busy(t)

\* A thread in a call waits for the mutex of a map that a thread running
\* a destructor holds.
C22_Witness ==
    \E t \in Threads : \E u \in Threads \ {t} :
        /\ NeedsLookup(t)
        /\ destroying[u] # NULL
        /\ object_map_lock_[MapInHand(t)] = u

(***************************************************************************)
(* C29.  Lookups and destructors.                                          *)
(***************************************************************************)
\* C29: no call holds, as the result of a lookup, a wrapper whose
\* destructor has started: the out parameters of the calls in progress
\* hold no wrapper that is being destroyed or has been destroyed.
C29_NoLookupOfDyingWrapper ==
    \A t \in Threads : \A i \in DOMAIN stack[t] : \A j \in OutParams(stack[t][i]) :
        stack[t][i].args[j].k = "wrap" =>
            /\ stack[t][i].args[j] \notin BeingDestroyed
            /\ stack[t][i].args[j] \in AllLiveWrappers

(***************************************************************************)
(* C39: RemoveQuotes on a non-empty string takes off at most one leading   *)
(* and at most one trailing quote character (' or "), each whether or not  *)
(* the other end has one and whether or not the two are the same, and      *)
(* leaves every other character in place; a string with no quote at        *)
(* either end comes back unchanged, and a string that is one quote         *)
(* character comes back empty.                                             *)
(***************************************************************************)
C39_Returned == running.fn = "RemoveQuotes" /\ running.pc = "returned"

C39_RemoveQuotes ==
    C39_Returned =>
        LET s == running.source
            r == running.result
            lead == s[1] \in {"\"", "'"}
            trail == s[Len(s)] \in {"\"", "'"}
        IN  /\ Len(s) = 1 /\ lead => r = << >>
            /\ Len(s) >= 2 => r = SubSeq(s, IF lead THEN 2 ELSE 1,
                                            IF trail THEN Len(s) - 1 ELSE Len(s))
            /\ ~lead /\ ~trail => r = s

\* A string with two different quotes at its ends has lost both.
C39_Witness ==
    /\ C39_Returned
    /\ running.source = <<"'", "x", "\"">>
    /\ running.result = <<"x">>

(***************************************************************************)
(* C35: FindLayerSettingsFile (not Windows, not Android) returns the first *)
(* existing file in this order: (1) vulkan/settings.d/vk_layer_settings.txt*)
(* under XDG_DATA_HOME, or under HOME/.local/share only when XDG_DATA_HOME *)
(* is empty; (2) the value of VK_LAYER_SETTINGS_PATH, with                 *)
(* vk_layer_settings.txt appended when it names a directory; (3)           *)
(* vk_layer_settings.txt in the current working directory.  It returns the *)
(* empty string when none exists, and never a later location when an       *)
(* earlier one exists.                                                     *)
(***************************************************************************)
C35_Locations ==
    LET tail == <<"vulkan", "settings.d", "vk_layer_settings.txt">>
        first == IF env["XDG_DATA_HOME"] # << >> THEN env["XDG_DATA_HOME"] \o tail
                 ELSE IF env["HOME"] # << >> THEN env["HOME"] \o <<".local", "share">> \o tail
                 ELSE << >>
        named == env["VK_LAYER_SETTINGS_PATH"]
        second == IF named \in disk.dirs THEN Append(named, "vk_layer_settings.txt") ELSE named
    IN  <<first, second, <<"vk_layer_settings.txt">> >>

C35_Exists(i) == C35_Locations[i] # << >> /\ C35_Locations[i] \in disk.files

C35_Returned == running.fn = "FindLayerSettingsFile" /\ running.pc = "returned"

C35_FirstExistingFile ==
    C35_Returned =>
        IF \E i \in 1..3 : C35_Exists(i)
        THEN \E i \in 1..3 :
                /\ C35_Exists(i)
                /\ \A j \in 1..(i - 1) : ~C35_Exists(j)
                /\ running.settings_file = C35_Locations[i]
        ELSE running.settings_file = << >>

\* XDG_DATA_HOME is set and holds no settings file, HOME does, the
\* variable names a directory that holds one, the working directory holds
\* one: the file of the directory is returned.
C35_Witness ==
    /\ C35_Returned
    /\ env["XDG_DATA_HOME"] # << >>
    /\ ~C35_Exists(1)
    /\ <<"home", ".local", "share", "vulkan", "settings.d", "vk_layer_settings.txt">> \in disk.files
    /\ env["VK_LAYER_SETTINGS_PATH"] \in disk.dirs
    /\ C35_Exists(3)
    /\ running.settings_file = <<"cfg", "vk_layer_settings.txt">>

(***************************************************************************)
(* What the lines of the modelled settings files say, read by eye: the    *)
(* key and the value of each line of the form key = value, the value as   *)
(* it is to be stored.                                                     *)
(***************************************************************************)
LineSays(line) ==
    CASE line = <<"a", "b", "=", "1">>           -> [key |-> <<"a", "b">>, value |-> <<"1">>]
      [] line = <<"a", "b", " ", "=", " ", "2">> -> [key |-> <<"a", "b">>, value |-> <<"2">>]
      [] line = <<"b", "=", "3">>                -> [key |-> <<"b">>, value |-> <<"3">>]
      [] line = <<"a", "b", "=", "'", "q", "'">> -> [key |-> <<"a", "b">>, value |-> <<"q">>]
      [] line = <<"a", "b", "=", "4", "#", "c">> -> [key |-> <<"a", "b">>, value |-> <<"4">>]
      [] line = <<"\t", "a", "=", "7", " ", "x">> -> [key |-> <<"a">>, value |-> <<"7">>]
      [] OTHER                                   -> [key |-> << >>, value |-> << >>]

\* The key starts with the filter prefix.
StartsWith(key, prefix) ==
    /\ Len(key) >= Len(prefix)
    /\ \A i \in 1..Len(prefix) : key[i] = prefix[i]

\* The line is one the load has to store.
ToStore(line, filter) == LineSays(line).key # << >> /\ StartsWith(LineSays(line).key, filter)

\* The lines of the file that say something about the key and are to be stored.
LinesOf(key) ==
    {i \in 1..Len(disk.text) :
        LineSays(disk.text[i]).key = key /\ ToStore(disk.text[i], running.filter)}

Last(S) == CHOOSE i \in S : \A j \in S : j <= i

\* A call of LoadLayerSettingsFile on a map has returned after reading
\* its file to the end.
LoadedToTheEnd ==
    /\ running.fn = "LoadLayerSettingsFile"
    /\ running.pc = "returned"
    /\ running.file.opened
    /\ ~running.file.bad

(***************************************************************************)
(* C36: LoadLayerSettingsFile stores an entry for every line of the file   *)
(* that has the form key = value and whose key passes the filter, taking   *)
(* the lines from first to last, whether or not a newline ends the last    *)
(* line; on a file read to its end it returns 0.                           *)
(***************************************************************************)
C36_EveryLineStored ==
    LoadedToTheEnd =>
        /\ running.result = 0
        /\ \A i \in 1..Len(disk.text) :
              ToStore(disk.text[i], running.filter) =>
                 /\ LineSays(disk.text[i]).key \in DOMAIN settings.entries
                 /\ settings.entries[LineSays(disk.text[i]).key]
                       = LineSays(disk.text[Last(LinesOf(LineSays(disk.text[i]).key))]).value

(***************************************************************************)
(* C37: LoadLayerSettingsFile adds or overwrites only entries whose key    *)
(* starts with the filter prefix (every key when the filter is empty):     *)
(* entries under keys that do not occur in the file stay as they were,     *)
(* what follows the first '#' of a line is ignored, and a key that occurs  *)
(* on several lines ends with the value of the last of them.               *)
(***************************************************************************)
C37_OnlyFilteredKeysLastValue ==
    /\ running.fn = "LoadLayerSettingsFile" /\ settings # NullSettings =>
          \A key \in DOMAIN settings.entries \cup DOMAIN running.given.entries :
             LinesOf(key) = {} =>
                /\ key \in DOMAIN running.given.entries
                /\ key \in DOMAIN settings.entries
                /\ settings.entries[key] = running.given.entries[key]
    /\ LoadedToTheEnd =>
          \A key \in DOMAIN settings.entries :
             Cardinality(LinesOf(key)) >= 2 =>
                settings.entries[key] = LineSays(disk.text[Last(LinesOf(key))]).value

(***************************************************************************)
(* C38: LoadLayerSettingsFile called with a null settings pointer returns  *)
(* EINVAL without opening or reading the file; when the file cannot be     *)
(* opened it returns the error code and leaves every entry of the map as   *)
(* it was.                                                                 *)
(***************************************************************************)
C38_CannotOpen ==
    running.filename \notin disk.files \/ disk.readable = "no"

C38_NullOrUnopened ==
    running.fn = "LoadLayerSettingsFile" =>
        /\ settings = NullSettings =>
              /\ running.file = [opened |-> FALSE, pos |-> 0, eof |-> FALSE,
                                 fail |-> FALSE, bad |-> FALSE]
              /\ running.pc = "returned" => running.result = 22
        /\ settings # NullSettings /\ C38_CannotOpen =>
              /\ settings = running.given
              /\ running.pc = "returned" => running.result \in {2, 5, 13}

\* A load into a map with entries has returned an error code for a file
\* that is not there.
C38_Witness ==
    /\ running.fn = "LoadLayerSettingsFile"
    /\ running.pc = "returned"
    /\ disk.files = {}
    /\ running.result = 2
    /\ settings # NullSettings
    /\ DOMAIN settings.entries # {}

(***************************************************************************)
(* C34: OMSetRenderTargets resolves exactly 1 element of                   *)
(* pRenderTargetDescriptors when RTsSingleHandleToDescriptorRange is true  *)
(* and exactly NumRenderTargetDescriptors elements otherwise, and forwards *)
(* NumRenderTargetDescriptors and the flag as supplied; a null             *)
(* pDepthStencilDescriptor is forwarded as null.                           *)
(***************************************************************************)
C34_Forwarded(t) ==
    /\ Forwarded(t)
    /\ stack[t][1].api = "ID3D12GraphicsCommandList_OMSetRenderTargets"

\* The handle as the real implementation is to see it.
C34_RealHandle(h) == [k |-> "struct", ptr |-> IF h.ptr.k = "wrap" THEN Real(h.ptr.o) ELSE h.ptr]

C34_OMSetRenderTargets ==
    \A t \in Threads :
        C34_Forwarded(t) =>
            LET s == stack[t][1].supplied
                a == ForwardedArgs(t)
                n == IF s[3] THEN 1 ELSE s[1]
            IN  /\ a[1] = s[1]
                /\ a[3] = s[3]
                /\ s[2] # NULL /\ n > 0 =>
                      /\ a[2] # NULL
                      /\ Len(a[2].elems) = n
                      /\ \A i \in 1..n : a[2].elems[i] = C34_RealHandle(s[2].elems[i])
                /\ s[4] = NULL => a[4] = NULL

\* A call with the flag set, two descriptors announced and no depth
\* stencil has forwarded one resolved handle, the count two and null.
C34_Witness ==
    /\ C34_Forwarded("t1")
    /\ stack["t1"][1].supplied[1] = 2
    /\ stack["t1"][1].supplied[2] # NULL
    /\ stack["t1"][1].supplied[3]
    /\ stack["t1"][1].supplied[4] = NULL
    /\ ForwardedArgs("t1")[1] = 2
    /\ Len(ForwardedArgs("t1")[2].elems) = 1
    /\ ForwardedArgs("t1")[2].elems[1].ptr.k = "real"
    /\ ForwardedArgs("t1")[4] = NULL

(***************************************************************************)
(* C31: the resolved copies built for an outermost call stay valid and     *)
(* unmodified until that call's forward to the real implementation         *)
(* returns: resolving a later argument does not overwrite the copy of an   *)
(* earlier one, and nested intercepted calls on the same thread never      *)
(* acquire or reset the scratch memory.                                    *)
(***************************************************************************)
\* The thread's outermost call has fetched the buffer and its forward has
\* not returned.
C31_Resolving(t) ==
    /\ stack[t] # << >>
    /\ stack[t][1].pc = "Forward"
    /\ resolving[t].fetched

\* The blocks of the thread's buffer built for the given argument.
C31_Blocks(t, i) ==
    {j \in DOMAIN unwrap_memory[t] : unwrap_memory[t][j].param = i}

C31_CopiesValid ==
    \A t \in Threads :
        /\ C31_Resolving(t) =>
              LET f == stack[t][1]
                  api == ApiOf(f.api)
              IN  \A i \in resolving[t].done :
                     LET copy == ForwardArg(api, f.supplied, i) IN
                     IF copy = NULL
                     THEN C31_Blocks(t, i) = {}
                     ELSE /\ Cardinality(C31_Blocks(t, i)) = 1
                          /\ \A j \in C31_Blocks(t, i) : unwrap_memory[t][j].copy = copy
        /\ Forwarded(t) /\ stack[t][1].api \in {api.name : api \in ResolveApis} =>
              ForwardedArgs(t) = ForwardArgs(ApiOf(stack[t][1].api), stack[t][1].supplied)

\* A step a thread takes inside a nested call leaves its buffer as it was.
C31_NestedLeaveMemory ==
    \A t \in Threads :
        Len(stack[t]) >= 2 /\ stack'[t] # stack[t] => unwrap_memory'[t] = unwrap_memory[t]

C31_ScratchStaysValid == []C31_CopiesValid /\ [][C31_NestedLeaveMemory]_vars

\* CopyTextureRegion has built both copies, and a call made from inside
\* the real implementation has been forwarded on the else branch.
C31_Witness ==
    /\ Len(stack["t1"]) = 2
    /\ stack["t1"][1].api = "ID3D12GraphicsCommandList_CopyTextureRegion"
    /\ stack["t1"][2].pc = "DecrementCallScope"
    /\ C31_Resolving("t1")
    /\ Cardinality(resolving["t1"].done) = 2
    /\ Len(unwrap_memory["t1"]) = 2

(***************************************************************************)
(* C32: for an entry point that has a capture-manager Override the         *)
(* outermost path obtains its result from the Override instead of calling  *)
(* the real method, and the nested path calls the real method or the       *)
(* dispatch-table entry directly; an Override is never invoked at a        *)
(* call-scope depth greater than 1; and the result of the outermost path   *)
(* is still wrapped on success, encoded and passed to the post-call hook.  *)
(***************************************************************************)
\* The frames of every thread's stack.
C32_Frames == UNION {Range(stack[t]) : t \in Threads}

\* The outermost path is past its last statement before the return.
C32_Done(f) == f.call_scope = 1 /\ f.pc \in {"DecrementCallScope", "Return"}

\* WrapObject has been called on the out parameters, which as for any
\* other call hold wrappers where the layer has a wrapper type for the
\* interface that was asked for.
C32_OutputsWrapped(f) ==
    ApiOf(f.api).wrap # << >> =>
        /\ Ran(f, "WrapObject")
        /\ \A i \in DOMAIN ApiOf(f.api).wrap :
              LET api == ApiOf(f.api)
                  out == f.args[api.wrap[i].out]
              IN  OutIid(api, f.args, api.wrap[i].out) \in WrapperTypes /\ out # NULL =>
                     out.k = "wrap"

C32_HandedOn(f, step) ==
    \E i \in DOMAIN f.log : f.log[i].step = step /\ f.log[i].args = f.args

C32_OverrideOutermostOnly ==
    \A f \in C32_Frames :
        LET api == ApiOf(f.api) IN
        /\ f.via = "Override" => api.override /\ f.call_scope = 1
        /\ api.override /\ Ran(f, "Forward") =>
              /\ f.call_scope = 1 => f.via = "Override"
              /\ f.call_scope > 1 =>
                    f.via = IF api.object = "" THEN "DispatchTable" ELSE "Real"
        /\ api.override /\ C32_Done(f) =>
              /\ f.result = f.real_result
              /\ SUCCEEDED(f.result) => C32_OutputsWrapped(f)
              /\ C32_HandedOn(f, "Encode")
              /\ C32_HandedOn(f, "PostCall")

\* Inside the Override of CreateDXGIFactory2 the entry point has been called
\* again and has gone through the dispatch table, and the outermost call
\* has gone on to wrap the factory, encode and run the post-call hook.
C32_Witness ==
    \E f \in C32_Frames :
        /\ f.api = "CreateDXGIFactory2"
        /\ C32_Done(f)
        /\ f.via = "Override"
        /\ SUCCEEDED(f.result)
        /\ f.args[2] # NULL
        /\ f.args[2].k = "wrap"
        /\ calls = 2
        /\ issued["t1"] + issued["t2"] = 1

(***************************************************************************)
(* C33: a wrapper of a derived interface is registered in exactly one      *)
(* ObjectMap, the one of its family's root wrapper type: constructing it   *)
(* adds exactly one entry and destroying it removes exactly that entry, so *)
(* the total number of entries over all ObjectMaps always equals the       *)
(* number of live wrappers.                                                *)
(***************************************************************************)
\* The entries of all maps: the map and the key of each.
C33_Entries == UNION {{<<ty, o>> : o \in DOMAIN object_map_[ty]} : ty \in WrapperTypes}

\* The maps the wrapper is the value of an entry of.
C33_MapsOf(w) == {ty \in WrapperTypes : w \in Range(object_map_[ty])}

C33_OneEntryPerLiveWrapper ==
    /\ \A w \in AllLiveWrappers : C33_MapsOf(w) = {Family(w.t)}
    /\ Cardinality(C33_Entries) = Cardinality(AllLiveWrappers)

====
